---- MODULE Spec2Model ----
(***************************************************************************)
(* Model of the Serper MCP server (src/src/serper_mcp_server.py): the      *)
(* entity resolver, the recursive search expander (super_search) and the   *)
(* analyze_topic pipeline (content collection, credential check, RHF       *)
(* extraction).  Entity names are sequences of one-character strings so    *)
(* that lower(), strip(), substring tests and difflib's ratio are computed *)
(* as the code computes them.                                              *)
(***************************************************************************)
EXTENDS Integers, Sequences, FiniteSets, TLC

(***************************************************************************)
(* Bounds of the model.                                                    *)
(***************************************************************************)
\* longest relationship list handed to the resolver
MaxRels == 2

\* largest max_depth given to super_search
MaxDepth == 2

\* largest max_related_searches given to super_search
MaxRelated == 2

\* largest max_urls_per_query given to analyze_topic
MaxUrls == 2

\* largest number of scraped documents handed to the RHF pipeline
MaxDocs == 2

(***************************************************************************)
(* Strings.                                                                *)
(***************************************************************************)
UpperChars == <<"A","B","C","D","E","F","G","H","I","J","K","L","M",
                "N","O","P","Q","R","S","T","U","V","W","X","Y","Z">>

LowerChars == <<"a","b","c","d","e","f","g","h","i","j","k","l","m",
                "n","o","p","q","r","s","t","u","v","w","x","y","z">>

IsSpace(c) == c \in {" ", "\t", "\n", "\r"}

\* str.lower() on one character
LowerChar(c) ==
    IF \E k \in 1..26 : UpperChars[k] = c
    THEN LowerChars[CHOOSE k \in 1..26 : UpperChars[k] = c]
    ELSE c

\* str.lower()
Lower(s) == [k \in 1..Len(s) |-> LowerChar(s[k])]

\* str.strip(): drop leading and trailing whitespace
Strip(s) ==
    LET keep == {k \in 1..Len(s) : ~IsSpace(s[k])}
    IN  IF keep = {} THEN <<>>
        ELSE LET lo == CHOOSE k \in keep : \A m \in keep : k <= m
                 hi == CHOOSE k \in keep : \A m \in keep : k >= m
             IN  SubSeq(s, lo, hi)

\* entity.lower().strip()
Normalize(s) == Strip(Lower(s))

\* str.startswith(p)
StartsWith(s, p) == Len(p) <= Len(s) /\ SubSeq(s, 1, Len(p)) = p

\* str.endswith(p)
EndsWith(s, p) == Len(p) <= Len(s) /\ SubSeq(s, Len(s) - Len(p) + 1, Len(s)) = p

\* p in s (substring test)
Contains(s, p) ==
    \E k \in 0..(Len(s) - Len(p)) : SubSeq(s, k + 1, k + Len(p)) = p

(***************************************************************************)
(* difflib.SequenceMatcher(None, a, b).ratio() without junk: the longest   *)
(* matching block (earliest in a, then earliest in b), then recursively    *)
(* the pieces to its left and to its right.                                *)
(***************************************************************************)
RECURSIVE RunLen(_, _, _, _, _, _)
RunLen(a, b, i, j, ahi, bhi) ==
    IF i > ahi \/ j > bhi THEN 0
    ELSE IF a[i] # b[j] THEN 0
    ELSE 1 + RunLen(a, b, i + 1, j + 1, ahi, bhi)

\* <<besti, bestj, bestsize>> over a[alo..ahi], b[blo..bhi]
find_longest_match(a, b, alo, ahi, blo, bhi) ==
    LET sizes == {RunLen(a, b, i, j, ahi, bhi) : i \in alo..ahi, j \in blo..bhi}
        best  == IF sizes = {} THEN 0
                 ELSE CHOOSE k \in sizes : \A m \in sizes : k >= m
    IN  IF best = 0 THEN <<alo, blo, 0>>
        ELSE LET is == {i \in alo..ahi :
                          \E j \in blo..bhi : RunLen(a, b, i, j, ahi, bhi) = best}
                 bi == CHOOSE i \in is : \A m \in is : i <= m
                 js == {j \in blo..bhi : RunLen(a, b, bi, j, ahi, bhi) = best}
                 bj == CHOOSE j \in js : \A m \in js : j <= m
             IN  <<bi, bj, best>>

\* sum of the sizes of get_matching_blocks()
RECURSIVE MatchCount(_, _, _, _, _, _)
MatchCount(a, b, alo, ahi, blo, bhi) ==
    IF alo > ahi \/ blo > bhi THEN 0
    ELSE LET m == find_longest_match(a, b, alo, ahi, blo, bhi)
         IN  IF m[3] = 0 THEN 0
             ELSE m[3]
                  + MatchCount(a, b, alo, m[1] - 1, blo, m[2] - 1)
                  + MatchCount(a, b, m[1] + m[3], ahi, m[2] + m[3], bhi)

\* ratio() >= num/den, in integers; ratio() is 1.0 when both are empty
RatioAtLeast(a, b, num, den) ==
    IF Len(a) + Len(b) = 0 THEN TRUE
    ELSE 2 * MatchCount(a, b, 1, Len(a), 1, Len(b)) * den >= num * (Len(a) + Len(b))

(***************************************************************************)
(* Inputs of the entity resolver: entity names and relationships.          *)
(***************************************************************************)
E_Sun == <<"S","u","n">>

E_sun_sp == <<"s","u","n"," ">>

E_Sunny == <<"S","u","n","n","y">>

E_SunnyD == <<"S","u","n","n","y"," ","D">>

E_DrSun == <<"D","r"," ","S","u","n">>

E_TheSunInc == <<"T","h","e"," ","S","u","n"," ","I","n","c">>

E_Moon == <<"M","o","o","n">>

E_SUN == <<"S","U","N">>

Rel(s, t) == [source |-> s, target |-> t]

\* the relationships a resolver input is drawn from
RelUniverse ==
    { Rel(E_Sun, E_Moon), Rel(E_sun_sp, E_Sunny), Rel(E_SunnyD, E_Sun),
      Rel(E_DrSun, E_TheSunInc), Rel(E_Sunny, E_Moon), Rel(E_TheSunInc, E_Sun),
      Rel(E_SUN, E_Sun) }

RelLists == UNION {[1..n -> RelUniverse] : n \in 0..MaxRels}

EmptyMap == [x \in {} |-> x]

(***************************************************************************)
(* State.                                                                  *)
(***************************************************************************)
VARIABLES
    \* _resolve_entities_with_splink
    extracted_relationships,  \* the argument
    entities_list,            \* list(unique_entities)
    canonical_mapping,        \* the union-find parent map
    ri, rj,                   \* the indices i, j of the pair loop (1-based)
    final_mapping,            \* the returned map
    rpc,                      \* "start", "pairs", "final", "done"
    \* super_search and its runs of _perform_single_type_super_search;
    \* run k is the one started for search_types_list[k]
    queries,                  \* the initial queries
    search_types_list,        \* the requested categories
    max_related_searches,
    max_depth,
    all_results,              \* per run: query -> result object
    queries_to_process,       \* per run: the candidates of the next depth
    processed_queries,        \* per run: the queries already issued
    depth,                    \* per run: the loop variable
    run_pc,                   \* per run: "loop" or "returned"
    batches,                  \* per run: the batches handed to the gateway
    fail_depth,               \* per run: depth of the failed gateway call, or -1
    aggregated_results,       \* super_search: category -> results of its run
    total_queries_processed,
    ss_pc,                    \* "idle", "gather", "done", "raised"
    \* analyze_topic, phases 1 to 3
    key_set,                  \* OPENAI_API_KEY is set in the environment
    max_urls_per_query,
    search_results,           \* the result objects super_search returned
    super_search_calls,       \* number of super_search invocations
    scan_pos,                 \* position of the scan over the result items
    urls_to_scrape,           \* the set of candidate URLs
    urls_list,                \* list(urls_to_scrape)
    scrape_outcome,           \* per URL of urls_list: what scrape_url did
    scrape_calls,             \* per URL of urls_list: scrape_url invocations
    scraping_results,         \* per URL of urls_list: result of its task
    scraped_content,          \* the collected documents
    doc_pos,                  \* position of the loop over scraped_content
    llm_calls,                \* number of LLM completions requested
    graph_built,              \* the graph G was constructed
    a_result,                 \* "none", "Error", "Report"
    a_pc,                     \* position in analyze_topic
    \* analyze_topic, the RHF pipeline over the scraped documents
    document_count,           \* len(scraped_content)
    document_pos,             \* the document the pipeline runs on
    all_relations,            \* step 1: the relations of the document
    relation_pos,             \* position of the loop over all_relations
    head_entities,            \* step 2: the heads of the relation
    head_pos,                 \* position of the loop over head_entities
    document_relationships,   \* the relationships of the document so far
    parsed_relationships,     \* the relationships of the earlier documents
    llm_response,             \* the completion the last step received
    rhf_llm_calls,            \* the number of LLM calls made for each document
    rhf_pc                    \* "step1", "step2", "step3", "done", "raised"

resolverVars == <<extracted_relationships, entities_list, canonical_mapping,
                  ri, rj, final_mapping, rpc>>

searchVars == <<queries, search_types_list, max_related_searches, max_depth,
                all_results, queries_to_process, processed_queries, depth,
                run_pc, batches, fail_depth, aggregated_results,
                total_queries_processed, ss_pc>>

analyzeVars == <<key_set, max_urls_per_query, search_results, super_search_calls,
                 scan_pos, urls_to_scrape, urls_list, scrape_outcome, scrape_calls,
                 scraping_results, scraped_content, doc_pos, llm_calls,
                 graph_built, a_result, a_pc>>

rhfVars == <<document_count, document_pos, all_relations, relation_pos,
             head_entities, head_pos, document_relationships,
             parsed_relationships, llm_response, rhf_llm_calls, rhf_pc>>

\* graph construction, analysis and summarization (analyze_topic, phases 5-8)
VARIABLES g_relationships, canonical_entity_map, g_pos, G, degree_centrality,
          top_nodes, graph_context_for_llm, summary_results, summaries,
          g_result, g_pc

graphVars == <<g_relationships, canonical_entity_map, g_pos, G, degree_centrality,
               top_nodes, graph_context_for_llm, summary_results, summaries,
               g_result, g_pc>>

\* the search and scrape tools of the server
VARIABLES tool_name, tool_args, gateway_requests, gateway_outcome, tool_outcome,
          invocations

toolVars == <<tool_name, tool_args, gateway_requests, gateway_outcome, tool_outcome,
              invocations>>

\* the secure server: authentication, scopes and the rate limiter
VARIABLES auth_provider, utcnow, rate_limiter_requests, secure_tool, access_token,
          secure_gateway_calls, secure_outcome, secure_invocations,
          limiter_calls  \* history: the is_allowed calls made, with their verdicts

secureVars == <<auth_provider, utcnow, rate_limiter_requests, secure_tool, access_token,
                secure_gateway_calls, secure_outcome, secure_invocations,
                limiter_calls>>

\* calls of the entity quality filter (_is_valid_entity)
VARIABLES f_name,     \* the argument of the last call
          f_verdict,  \* what the last call returned
          f_calls     \* the number of calls made

filterVars == <<f_name, f_verdict, f_calls>>

\* calls of _process_and_clean_results
VARIABLES c_data,     \* the argument of the last call, as it was passed
          c_cleaned,  \* what the last call returned
          c_calls     \* the number of calls made

cleanVars == <<c_data, c_cleaned, c_calls>>

vars == <<resolverVars, searchVars, analyzeVars, rhfVars, graphVars, toolVars, secureVars, filterVars, cleanVars>>

\* what the secure server leaves alone
outsideSecure == <<resolverVars, searchVars, analyzeVars, rhfVars, graphVars, toolVars, filterVars, cleanVars>>

\* what phases 5 to 8 of analyze_topic leave alone
outsideGraph == <<resolverVars, searchVars, analyzeVars, rhfVars, toolVars, secureVars, filterVars, cleanVars>>

\* what the search and scrape tools leave alone
outsideTools == <<resolverVars, searchVars, analyzeVars, rhfVars, graphVars, secureVars, filterVars, cleanVars>>

\* what the resolver leaves alone
outsideResolver == <<searchVars, analyzeVars, rhfVars, graphVars, toolVars, secureVars, filterVars, cleanVars>>

\* what super_search leaves alone
outsideSearch == <<resolverVars, analyzeVars, rhfVars, graphVars, toolVars, secureVars, filterVars, cleanVars>>

\* what phases 1 to 3 of analyze_topic leave alone
outsideAnalyze == <<resolverVars, searchVars, rhfVars, graphVars, toolVars, secureVars, filterVars, cleanVars>>

\* what the RHF pipeline leaves alone
outsideRHF == <<resolverVars, searchVars, analyzeVars, graphVars, toolVars, secureVars, filterVars, cleanVars>>

\* what the entity quality filter leaves alone
outsideFilter == <<resolverVars, searchVars, analyzeVars, rhfVars, graphVars, toolVars, secureVars, cleanVars>>

\* what _process_and_clean_results leaves alone
outsideClean == <<resolverVars, searchVars, analyzeVars, rhfVars, graphVars, toolVars, secureVars, filterVars>>

\* the completion of a step that has not run
NoResponse == [kind |-> "none", value |-> "none", items |-> <<>>]

\* no RHF pipeline is running
RHFIdle ==
    /\ document_count = 0
    /\ document_pos = 0
    /\ all_relations = <<>>
    /\ relation_pos = 0
    /\ head_entities = <<>>
    /\ head_pos = 0
    /\ document_relationships = <<>>
    /\ parsed_relationships = <<>>
    /\ llm_response = NoResponse
    /\ rhf_llm_calls = <<>>
    /\ rhf_pc = "idle"

\* no resolver call is in progress
ResolverIdle ==
    /\ extracted_relationships = <<>>
    /\ entities_list = <<>>
    /\ canonical_mapping = EmptyMap
    /\ ri = 0
    /\ rj = 0
    /\ final_mapping = EmptyMap
    /\ rpc = "idle"

\* no analyze_topic call is in progress
AnalyzeIdle ==
    /\ key_set = FALSE
    /\ max_urls_per_query = 1
    /\ search_results = <<>>
    /\ super_search_calls = 0
    /\ scan_pos = 0
    /\ urls_to_scrape = {}
    /\ urls_list = <<>>
    /\ scrape_outcome = <<>>
    /\ scrape_calls = <<>>
    /\ scraping_results = <<>>
    /\ scraped_content = <<>>
    /\ doc_pos = 0
    /\ llm_calls = 0
    /\ graph_built = FALSE
    /\ a_result = "none"
    /\ a_pc = "idle"

\* analyze_topic has passed the credential check and runs the RHF pipeline
AnalyzeExtracting ==
    /\ key_set = TRUE
    /\ max_urls_per_query = 1
    /\ search_results = <<>>
    /\ super_search_calls = 0
    /\ scan_pos = 0
    /\ urls_to_scrape = {}
    /\ urls_list = <<>>
    /\ scrape_outcome = <<>>
    /\ scrape_calls = <<>>
    /\ scraping_results = <<>>
    /\ scraped_content = <<>>
    /\ doc_pos = 0
    /\ llm_calls = 0
    /\ graph_built = FALSE
    /\ a_result = "none"
    /\ a_pc = "extract"

\* no super_search call is in progress
SearchIdle ==
    /\ queries = <<>>
    /\ search_types_list = <<>>
    /\ max_related_searches = 0
    /\ max_depth = 0
    /\ all_results = <<>>
    /\ queries_to_process = <<>>
    /\ processed_queries = <<>>
    /\ depth = <<>>
    /\ run_pc = <<>>
    /\ batches = <<>>
    /\ fail_depth = <<>>
    /\ aggregated_results = EmptyMap
    /\ total_queries_processed = 0
    /\ ss_pc = "idle"

(***************************************************************************)
(* Entity resolver (_resolve_entities_with_splink).                        *)
(***************************************************************************)
prefixes_to_remove ==
    << <<"t","h","e"," ">>, <<"s","i","r"," ">>, <<"d","r"," ">>,
       <<"p","r","o","f"," ">>, <<"m","r"," ">>, <<"m","s"," ">>,
       <<"m","r","s"," ">> >>

suffixes_to_remove ==
    << <<" ","i","n","c">>, <<" ","c","o","r","p">>,
       <<" ","c","o","m","p","a","n","y">>, <<" ","l","t","d">>,
       <<" ","l","l","c">> >>

\* the prefix loop: each listed prefix, in order, is cut off when present
RECURSIVE remove_prefixes(_, _)
remove_prefixes(s, k) ==
    IF k > Len(prefixes_to_remove) THEN s
    ELSE LET p == prefixes_to_remove[k]
         IN  remove_prefixes(IF StartsWith(s, p)
                             THEN SubSeq(s, Len(p) + 1, Len(s)) ELSE s, k + 1)

\* the suffix loop
RECURSIVE remove_suffixes(_, _)
remove_suffixes(s, k) ==
    IF k > Len(suffixes_to_remove) THEN s
    ELSE LET p == suffixes_to_remove[k]
         IN  remove_suffixes(IF EndsWith(s, p)
                             THEN SubSeq(s, 1, Len(s) - Len(p)) ELSE s, k + 1)

clean_name(norm) == remove_suffixes(remove_prefixes(norm, 1), 1)

\* sequence_similarity >= 0.85
high_sequence_similarity(norm1, norm2) == RatioAtLeast(norm1, norm2, 85, 100)

\* norm1 in norm2 or norm2 in norm1
substring_relation(norm1, norm2) == Contains(norm2, norm1) \/ Contains(norm1, norm2)

\* shorter_len >= 3 and shorter_len / longer_len >= 0.6
substring_qualifies(norm1, norm2) ==
    LET shorter_len == IF Len(norm1) <= Len(norm2) THEN Len(norm1) ELSE Len(norm2)
        longer_len  == IF Len(norm1) >= Len(norm2) THEN Len(norm1) ELSE Len(norm2)
    IN  shorter_len >= 3 /\ shorter_len * 10 >= 6 * longer_len

\* clean_similarity >= 0.9
clean_similarity_high(norm1, norm2) ==
    RatioAtLeast(clean_name(norm1), clean_name(norm2), 9, 10)

\* the if / elif / else chain on two normalized names
similar_normalized(norm1, norm2) ==
    IF high_sequence_similarity(norm1, norm2) THEN TRUE
    ELSE IF substring_relation(norm1, norm2) THEN substring_qualifies(norm1, norm2)
    ELSE clean_similarity_high(norm1, norm2)

\* a comparison that forgets to normalize its arguments
is_similar_raw(entity1, entity2) == similar_normalized(entity1, entity2)

\* a comparison whose substring branch forgets the length conditions
is_similar_any_substring(entity1, entity2) ==
    LET norm1 == Normalize(entity1)
        norm2 == Normalize(entity2)
    IN  IF high_sequence_similarity(norm1, norm2) THEN TRUE
        ELSE IF substring_relation(norm1, norm2) THEN TRUE
        ELSE clean_similarity_high(norm1, norm2)

\* a comparison whose substring branch forgets the 60% length test
is_similar_short_substring(entity1, entity2) ==
    LET norm1 == Normalize(entity1)
        norm2 == Normalize(entity2)
    IN  IF high_sequence_similarity(norm1, norm2) THEN TRUE
        ELSE IF substring_relation(norm1, norm2)
             THEN Len(norm1) >= 3 /\ Len(norm2) >= 3
        ELSE clean_similarity_high(norm1, norm2)

\* is_similar after one iteration of the pair loop
is_similar(entity1, entity2) ==
    similar_normalized(Normalize(entity1), Normalize(entity2))

\* a find that returns the parent instead of the root
find_canonical_parent(m, entity) == m[entity]

\* find_canonical: the root of entity
RECURSIVE find_canonical(_, _)
find_canonical(m, entity) ==
    IF m[entity] = entity THEN entity ELSE find_canonical(m, m[entity])

\* the path compression find_canonical performs on the way
RECURSIVE compress_path(_, _)
compress_path(m, entity) ==
    IF m[entity] = entity THEN m
    ELSE [compress_path(m, m[entity]) EXCEPT ![entity] = find_canonical(m, entity)]

\* a union in which the second name wins a tie
union_entities_tie_second(m, entity1, entity2) ==
    LET canonical1 == find_canonical(m, entity1)
        m1         == compress_path(m, entity1)
        canonical2 == find_canonical(m1, entity2)
        m2         == compress_path(m1, entity2)
    IN  IF canonical1 # canonical2
        THEN IF Len(canonical1) > Len(canonical2)
             THEN [m2 EXCEPT ![canonical2] = canonical1]
             ELSE [m2 EXCEPT ![canonical1] = canonical2]
        ELSE m2

\* union_entities: the longer canonical name wins, the first one on a tie
union_entities(m, entity1, entity2) ==
    LET canonical1 == find_canonical(m, entity1)
        m1         == compress_path(m, entity1)
        canonical2 == find_canonical(m1, entity2)
        m2         == compress_path(m1, entity2)
    IN  IF canonical1 # canonical2
        THEN IF Len(canonical1) >= Len(canonical2)
             THEN [m2 EXCEPT ![canonical2] = canonical1]
             ELSE [m2 EXCEPT ![canonical1] = canonical2]
        ELSE m2

\* unique_entities: every source and target
unique_entities(rels) ==
    {rels[k].source : k \in 1..Len(rels)} \cup {rels[k].target : k \in 1..Len(rels)}

\* list(unique_entities): a set is listed in an order the hash seed decides
Orderings(S) ==
    {f \in [1..Cardinality(S) -> S] : \A a, b \in 1..Cardinality(S) : f[a] = f[b] => a = b}

\* nx.DiGraph(): nodes in insertion order with their type attribute, edges
\* in insertion order with their label and weight attributes
EmptyGraph == [nodes |-> <<>>, type |-> [x \in {} |-> x],
               edge_list |-> <<>>, edges |-> [x \in {} |-> x]]

\* no graph is being built
GraphIdle ==
    /\ g_relationships = <<>>
    /\ canonical_entity_map = [x \in {} |-> x]
    /\ g_pos = 0
    /\ G = EmptyGraph
    /\ degree_centrality = [x \in {} |-> x]
    /\ top_nodes = <<>>
    /\ graph_context_for_llm = <<>>
    /\ summary_results = <<>>
    /\ summaries = <<>>
    /\ g_result = "none"
    /\ g_pc = "idle"

\* no tool has been invoked
ToolsIdle ==
    /\ tool_name = "none"
    /\ tool_args = <<>>
    /\ gateway_requests = <<>>
    /\ gateway_outcome = <<>>
    /\ tool_outcome = <<>>
    /\ invocations = 0

\* the secure server is not running
SecureIdle ==
    /\ auth_provider = FALSE
    /\ utcnow = 0
    /\ rate_limiter_requests = <<>>
    /\ secure_tool = "none"
    /\ access_token = <<>>
    /\ secure_gateway_calls = 0
    /\ secure_outcome = <<>>
    /\ secure_invocations = 0
    /\ limiter_calls = <<>>

\* the entity quality filter has not been called
FilterIdle ==
    /\ f_name = <<>>
    /\ f_verdict = FALSE
    /\ f_calls = 0

\* _process_and_clean_results has not been called
CleanIdle ==
    /\ c_data = <<>>
    /\ c_cleaned = <<>>
    /\ c_calls = 0

ResolverInit ==
    /\ extracted_relationships \in RelLists
    /\ entities_list = <<>>
    /\ canonical_mapping = EmptyMap
    /\ ri = 0
    /\ rj = 0
    /\ final_mapping = EmptyMap
    /\ rpc = "start"
    /\ SearchIdle
    /\ AnalyzeIdle
    /\ RHFIdle
    /\ GraphIdle
    /\ ToolsIdle
    /\ SecureIdle
    /\ FilterIdle
    /\ CleanIdle

\* lines 576-589: collect the entities; return {} when there are none
ResolveBegin ==
    /\ rpc = "start"
    /\ LET unique == unique_entities(extracted_relationships)
       IN  IF unique = {}
           THEN /\ rpc' = "done"
                /\ final_mapping' = EmptyMap
                /\ UNCHANGED <<entities_list, canonical_mapping, ri, rj>>
           ELSE /\ \E order \in Orderings(unique) : entities_list' = order
                /\ canonical_mapping' = [e \in unique |-> e]
                /\ ri' = 1
                /\ rj' = 2
                /\ rpc' = IF Cardinality(unique) >= 2 THEN "pairs" ELSE "final"
                /\ UNCHANGED final_mapping
    /\ UNCHANGED extracted_relationships
    /\ UNCHANGED outsideResolver

\* is_similar on every pair of names an input can hold, computed once
SimilarTable ==
    [x \in UNION {{r.source, r.target} : r \in RelUniverse} |->
        [y \in UNION {{r.source, r.target} : r \in RelUniverse} |-> is_similar(x, y)]]

\* lines 609-663: one iteration of the pair loop
ComparePair ==
    /\ rpc = "pairs"
    /\ LET entity1 == entities_list[ri]
           entity2 == entities_list[rj]
           n       == Len(entities_list)
       IN  /\ canonical_mapping' =
                  IF SimilarTable[entity1][entity2]
                  THEN union_entities(canonical_mapping, entity1, entity2)
                  ELSE canonical_mapping
           /\ IF rj < n
              THEN /\ rj' = rj + 1
                   /\ UNCHANGED <<ri, rpc>>
              ELSE IF ri + 1 < n
              THEN /\ ri' = ri + 1
                   /\ rj' = ri + 2
                   /\ UNCHANGED rpc
              ELSE /\ rpc' = "final"
                   /\ UNCHANGED <<ri, rj>>
    /\ UNCHANGED <<extracted_relationships, entities_list, final_mapping>>
    /\ UNCHANGED outsideResolver

\* lines 665-670: every entity is mapped to its canonical representative
RECURSIVE compress_all(_, _, _)
compress_all(m, list, k) ==
    IF k > Len(list) THEN m ELSE compress_all(compress_path(m, list[k]), list, k + 1)

Finalize ==
    /\ rpc = "final"
    /\ final_mapping' = [e \in DOMAIN canonical_mapping |->
                            find_canonical(canonical_mapping, e)]
    /\ canonical_mapping' = compress_all(canonical_mapping, entities_list, 1)
    /\ rpc' = "done"
    /\ UNCHANGED <<extracted_relationships, entities_list, ri, rj>>
    /\ UNCHANGED outsideResolver

ResolverNext == ResolveBegin \/ ComparePair \/ Finalize

SpecResolver == ResolverInit /\ [][ResolverNext]_vars

(***************************************************************************)
(* Recursive search expander (super_search and                             *)
(* _perform_single_type_super_search).  The gateway (query_serper_api)     *)
(* either raises or returns one result object per query of the batch; a    *)
(* result object echoes its query and carries a list of related searches.  *)
(***************************************************************************)
QueryUniverse == {"q1", "q2", "q3"}

\* the initial query lists a call is made with
InitialQueryLists == {<<>>, <<"q1">>, <<"q1", "q1">>, <<"q1", "q2">>}

\* the category lists a call is made with
SearchTypeLists == {<<"search">>, <<"search", "news">>}

\* the relatedSearches lists the gateway answers with; an entry is the
\* value of its "query" field, "" when the field is missing or empty
RelatedChoices == {<<>>, <<"q3", "q1">>, <<"q2", "", "q3">>}

\* a result object of the gateway
Result(q, related) == [q |-> q, relatedSearches |-> related]

Range(seq) == {seq[k] : k \in 1..Len(seq)}

Runs == 1..Len(search_types_list)

\* [q for q in queries_to_process if q not in processed_queries]
RECURSIVE current_queries(_, _)
current_queries(to_process, processed) ==
    IF to_process = <<>> THEN <<>>
    ELSE LET rest == current_queries(Tail(to_process), processed)
         IN  IF Head(to_process) \in processed THEN rest
             ELSE <<Head(to_process)>> \o rest

\* a collection that ignores max_related_searches
RECURSIVE collect_related_unlimited(_, _, _, _)
collect_related_unlimited(related, i, processed, limit) ==
    IF i > Len(related) THEN <<>>
    ELSE LET rest == collect_related_unlimited(related, i + 1, processed, limit)
         IN  IF related[i] # "" /\ related[i] \notin processed
             THEN <<related[i]>> \o rest
             ELSE rest

\* lines 445-449: the related searches one result adds to queries_to_process
RECURSIVE collect_related(_, _, _, _)
collect_related(related, i, processed, limit) ==
    IF i > Len(related) THEN <<>>
    ELSE LET rest == collect_related(related, i + 1, processed, limit)
         IN  IF i - 1 < limit /\ related[i] # "" /\ related[i] \notin processed
             THEN <<related[i]>> \o rest
             ELSE rest

\* lines 433-449: the loop over result_list; <<all_results, queries_to_process>>
\* a result loop that collects suggestions at the last depth as well
RECURSIVE process_results_any_depth(_, _, _, _, _, _)
process_results_any_depth(result_list, results, to_process, processed, d, k) ==
    IF k > Len(result_list) THEN <<results, to_process>>
    ELSE LET result == result_list[k]
             stored == IF result.q # ""
                       THEN (result.q :> result) @@ results
                       ELSE results
             added  == IF max_related_searches > 0
                       THEN collect_related(result.relatedSearches, 1, processed,
                                            max_related_searches)
                       ELSE <<>>
         IN  process_results_any_depth(result_list, stored, to_process \o added,
                                       processed, d, k + 1)

RECURSIVE process_results(_, _, _, _, _, _)
process_results(result_list, results, to_process, processed, d, k) ==
    IF k > Len(result_list) THEN <<results, to_process>>
    ELSE LET result == result_list[k]
             stored == IF result.q # ""
                       THEN (result.q :> result) @@ results
                       ELSE results
             added  == IF max_related_searches > 0 /\ d < max_depth
                       THEN collect_related(result.relatedSearches, 1, processed,
                                            max_related_searches)
                       ELSE <<>>
         IN  process_results(result_list, stored, to_process \o added, processed, d, k + 1)

SearchInit ==
    /\ queries \in InitialQueryLists
    /\ search_types_list \in SearchTypeLists
    /\ max_related_searches \in 0..MaxRelated
    /\ max_depth \in 0..MaxDepth
    /\ all_results = [k \in Runs |-> EmptyMap]
    /\ queries_to_process = [k \in Runs |-> queries]
    /\ processed_queries = [k \in Runs |-> {}]
    /\ depth = [k \in Runs |-> 0]
    /\ run_pc = [k \in Runs |-> "loop"]
    /\ batches = [k \in Runs |-> <<>>]
    /\ fail_depth = [k \in Runs |-> -1]
    /\ aggregated_results = EmptyMap
    /\ total_queries_processed = 0
    /\ ss_pc = "gather"
    /\ ResolverIdle
    /\ AnalyzeIdle
    /\ RHFIdle
    /\ GraphIdle
    /\ ToolsIdle
    /\ SecureIdle
    /\ FilterIdle
    /\ CleanIdle

\* a batch filtered by a processed set that all runs share
NextBatchShared(k) ==
    current_queries(queries_to_process[k], UNION {processed_queries[j] : j \in Runs})

\* the batch of the next iteration of run k
NextBatch(k) == current_queries(queries_to_process[k], processed_queries[k])

\* a run that may return while unprocessed queries remain
RunReturnAnyTime(k) ==
    /\ ss_pc = "gather"
    /\ run_pc[k] = "loop"
    /\ run_pc' = [run_pc EXCEPT ![k] = "returned"]
    /\ UNCHANGED <<queries, search_types_list, max_related_searches, max_depth,
                   all_results, queries_to_process, processed_queries, depth,
                   batches, fail_depth, aggregated_results,
                   total_queries_processed, ss_pc>>
    /\ UNCHANGED outsideSearch

\* lines 406-412, 457: the loop ends (range exhausted, nothing to process)
\* and the run returns
RunReturn(k) ==
    /\ ss_pc = "gather"
    /\ run_pc[k] = "loop"
    /\ \/ depth[k] > max_depth
       \/ queries_to_process[k] = <<>>
       \/ NextBatch(k) = <<>>
    /\ run_pc' = [run_pc EXCEPT ![k] = "returned"]
    /\ UNCHANGED <<queries, search_types_list, max_related_searches, max_depth,
                   all_results, queries_to_process, processed_queries, depth,
                   batches, fail_depth, aggregated_results,
                   total_queries_processed, ss_pc>>
    /\ UNCHANGED outsideSearch

\* an iteration of the loop can issue a batch
CanIssue(k) ==
    /\ ss_pc = "gather"
    /\ run_pc[k] = "loop"
    /\ depth[k] <= max_depth
    /\ NextBatch(k) # <<>>

\* lines 414-449: one iteration whose gateway call succeeds
RunBatch(k) ==
    /\ CanIssue(k)
    /\ LET batch     == NextBatch(k)
           processed == processed_queries[k] \cup Range(batch)
       IN  \E answer \in [Range(batch) -> RelatedChoices] :
               LET result_list == [n \in 1..Len(batch) |->
                                      Result(batch[n], answer[batch[n]])]
                   out == process_results(result_list, all_results[k], <<>>,
                                          processed, depth[k], 1)
               IN  /\ processed_queries' = [processed_queries EXCEPT ![k] = processed]
                   /\ batches' = [batches EXCEPT ![k] = Append(@, batch)]
                   /\ all_results' = [all_results EXCEPT ![k] = out[1]]
                   /\ queries_to_process' = [queries_to_process EXCEPT ![k] = out[2]]
                   /\ depth' = [depth EXCEPT ![k] = @ + 1]
    /\ UNCHANGED <<queries, search_types_list, max_related_searches, max_depth,
                   run_pc, fail_depth, aggregated_results,
                   total_queries_processed, ss_pc>>
    /\ UNCHANGED outsideSearch

\* a gateway error that escapes the run instead of ending its loop
RunBatchFailsUncaught(k) ==
    /\ CanIssue(k)
    /\ processed_queries' = [processed_queries EXCEPT ![k] = @ \cup Range(NextBatch(k))]
    /\ batches' = [batches EXCEPT ![k] = Append(@, NextBatch(k))]
    /\ queries_to_process' = [queries_to_process EXCEPT ![k] = <<>>]
    /\ fail_depth' = [fail_depth EXCEPT ![k] = depth[k]]
    /\ run_pc' = [run_pc EXCEPT ![k] = "raised"]
    /\ UNCHANGED <<queries, search_types_list, max_related_searches, max_depth,
                   all_results, depth, aggregated_results,
                   total_queries_processed, ss_pc>>
    /\ UNCHANGED outsideSearch

\* lines 414-427, 450-457: one iteration whose gateway call raises; the
\* except clause breaks out of the loop and the run returns
RunBatchFails(k) ==
    /\ CanIssue(k)
    /\ processed_queries' = [processed_queries EXCEPT ![k] = @ \cup Range(NextBatch(k))]
    /\ batches' = [batches EXCEPT ![k] = Append(@, NextBatch(k))]
    /\ queries_to_process' = [queries_to_process EXCEPT ![k] = <<>>]
    /\ fail_depth' = [fail_depth EXCEPT ![k] = depth[k]]
    /\ run_pc' = [run_pc EXCEPT ![k] = "returned"]
    /\ UNCHANGED <<queries, search_types_list, max_related_searches, max_depth,
                   all_results, depth, aggregated_results,
                   total_queries_processed, ss_pc>>
    /\ UNCHANGED outsideSearch

\* lines 507-510: all_results[s_type] = type_results, in the order of the list
RECURSIVE merge_results(_, _)
merge_results(agg, k) ==
    IF k > Len(search_types_list) THEN agg
    ELSE merge_results((search_types_list[k] :> all_results[k]) @@ agg, k + 1)

RECURSIVE sum_processed(_)
sum_processed(k) ==
    IF k > Len(search_types_list) THEN 0
    ELSE Cardinality(processed_queries[k]) + sum_processed(k + 1)

\* lines 504-516: the join of the runs; when a run raised, gather raises,
\* the except clause logs it and the empty aggregate is returned
SuperSearchReturn ==
    /\ ss_pc = "gather"
    /\ \/ \A k \in Runs : run_pc[k] = "returned"
       \/ \E k \in Runs : run_pc[k] = "raised"
    /\ IF \E k \in Runs : run_pc[k] = "raised"
       THEN UNCHANGED <<aggregated_results, total_queries_processed>>
       ELSE /\ aggregated_results' = merge_results(EmptyMap, 1)
            /\ total_queries_processed' = sum_processed(1)
    /\ ss_pc' = "done"
    /\ UNCHANGED <<queries, search_types_list, max_related_searches, max_depth,
                   all_results, queries_to_process, processed_queries, depth,
                   run_pc, batches, fail_depth>>
    /\ UNCHANGED outsideSearch

SearchNext ==
    \/ \E k \in Runs : RunReturn(k)
    \/ \E k \in Runs : RunBatch(k)
    \/ \E k \in Runs : RunBatchFails(k)
    \/ SuperSearchReturn

SpecSearch == SearchInit /\ [][SearchNext]_vars

(***************************************************************************)
(* Claims about the entity resolver, checked under SpecResolver.           *)
(***************************************************************************)
ResolverDone == rpc = "done"

\* the three similarity conditions of the resolver, each taken on its own
AnyCondition(x, y) ==
    LET norm1 == Normalize(x)
        norm2 == Normalize(y)
    IN  \/ high_sequence_similarity(norm1, norm2)
        \/ substring_relation(norm1, norm2) /\ substring_qualifies(norm1, norm2)
        \/ clean_similarity_high(norm1, norm2)

\* every entity an input can name
EntityUniverse == UNION {{r.source, r.target} : r \in RelUniverse}

\* for every pair of entities, whether it satisfies one of the conditions
ConditionTable == [x \in EntityUniverse |-> [y \in EntityUniverse |-> AnyCondition(x, y)]]

\* the lowercased, trimmed form of every entity
NormalizedForm == [e \in EntityUniverse |-> Strip(Lower(e))]

\* the entities of D joined to those of S by a chain of pairs that satisfy
\* one of the conditions
RECURSIVE LinkedSet(_, _)
LinkedSet(S, D) ==
    LET next == S \cup {y \in D : \E z \in S : ConditionTable[z][y]}
    IN  IF next = S THEN S ELSE LinkedSet(next, D)

\* C1: for a non-empty relationship list the returned map is idempotent:
\* map[x] is a key of the map and map[map[x]] = map[x], for every key x.
C1_Idempotent ==
    (ResolverDone /\ Len(extracted_relationships) > 0) =>
        \A x \in DOMAIN final_mapping :
            /\ final_mapping[x] \in DOMAIN final_mapping
            /\ final_mapping[final_mapping[x]] = final_mapping[x]

\* a finished run in which some entity was merged into another one
C1_Witness ==
    /\ ResolverDone
    /\ Len(extracted_relationships) > 0
    /\ \E x \in DOMAIN final_mapping : final_mapping[x] # x

\* C9 as stated: two entities whose comparison satisfies none of the three
\* conditions always get different canonical values.
C9_NeverUnioned ==
    ResolverDone =>
        \A x, y \in DOMAIN final_mapping :
            (x # y /\ final_mapping[x] = final_mapping[y]) => AnyCondition(x, y)

\* C9 amended: two entities whose comparison satisfies none of the three
\* conditions get different canonical values unless a chain of entities of
\* the input, each consecutive pair satisfying one of the conditions, joins
\* them.
C9_DistinctUnlessLinked ==
    ResolverDone =>
        \A x, y \in DOMAIN final_mapping :
            (x # y /\ final_mapping[x] = final_mapping[y] /\ ~ConditionTable[x][y])
                => y \in LinkedSet({x}, DOMAIN final_mapping)

\* a finished run with a dissimilar pair kept apart while a third entity
\* was merged with one of the two
C9_Witness ==
    /\ ResolverDone
    /\ \E x, y, z \in DOMAIN final_mapping :
           /\ x # y /\ z # x /\ z # y
           /\ final_mapping[x] # final_mapping[y]
           /\ final_mapping[z] = final_mapping[x]
           /\ ~AnyCondition(x, y)

\* C10: entities whose lowercased, trimmed forms are identical get the same
\* canonical value.
C10_SameNormalizedSameCanonical ==
    ResolverDone =>
        \A x, y \in DOMAIN final_mapping :
            NormalizedForm[x] = NormalizedForm[y] => final_mapping[x] = final_mapping[y]

\* a finished run whose input holds two different spellings of one name
C10_Witness ==
    /\ ResolverDone
    /\ \E x, y \in DOMAIN final_mapping :
           /\ x # y
           /\ Strip(Lower(x)) = Strip(Lower(y))
           /\ final_mapping[x] = final_mapping[y]

\* C11: the empty relationship list gives the empty map, and an input in
\* which no pair of distinct entities satisfies a similarity condition gives
\* the identity map.
C11_EmptyOrIdentity ==
    ResolverDone =>
        /\ extracted_relationships = <<>> => final_mapping = EmptyMap
        /\ (\A x, y \in DOMAIN final_mapping : x # y => ~AnyCondition(x, y))
               => \A x \in DOMAIN final_mapping : final_mapping[x] = x

\* a finished run on a non-empty input without similar pairs
C11_Witness ==
    /\ ResolverDone
    /\ Cardinality(DOMAIN final_mapping) >= 3
    /\ \A x, y \in DOMAIN final_mapping : x # y => ~AnyCondition(x, y)
    /\ \A x \in DOMAIN final_mapping : final_mapping[x] = x

\* C24: when the resolver has finished, two entities whose normalized forms
\* satisfy any one of the three conditions (sequence similarity >= 0.85; a
\* qualifying substring; similarity >= 0.9 after stripping the listed
\* prefixes and suffixes) have the same canonical representative.
C24_AnyConditionUnions ==
    ResolverDone =>
        \A x, y \in DOMAIN final_mapping :
            ConditionTable[x][y] => final_mapping[x] = final_mapping[y]

\* the entities that share the canonical representative of x under m
ClusterOf(m, x) ==
    {y \in DOMAIN m : find_canonical(m, y) = find_canonical(m, x)}

\* the representative of every cluster is at least as long as each member
LongestIsCanonical ==
    /\ \A x \in DOMAIN canonical_mapping :
           LET c == find_canonical(canonical_mapping, x)
           IN  /\ c \in ClusterOf(canonical_mapping, x)
               /\ \A y \in ClusterOf(canonical_mapping, x) : Len(c) >= Len(y)
    /\ ResolverDone =>
           \A x, y \in DOMAIN final_mapping :
               final_mapping[x] = final_mapping[y] => Len(final_mapping[x]) >= Len(y)

\* a union of two clusters whose representatives are equally long keeps the
\* representative of entities_list[ri], the entity met first
TieKeepsFirst ==
    rpc = "pairs" =>
        LET entity1    == entities_list[ri]
            entity2    == entities_list[rj]
            canonical1 == find_canonical(canonical_mapping, entity1)
            canonical2 == find_canonical(canonical_mapping, entity2)
        IN  ( /\ canonical1 # canonical2
              /\ Len(canonical1) = Len(canonical2)
              /\ find_canonical(canonical_mapping', entity1)
                     = find_canonical(canonical_mapping', entity2) )
                => find_canonical(canonical_mapping', entity2) = canonical1

\* C25: after any sequence of unions the canonical representative of each
\* cluster is a member of the cluster that is at least as long as every
\* other member, and a union of representatives of equal length keeps the
\* representative of the entity met first.
C25_LongestWinsTiesKeepFirst == []LongestIsCanonical /\ [][TieKeepsFirst]_vars

\* a finished run in which the shorter of two names was met first and lost,
\* and two names of equal length were merged under the one met first
C25_Witness ==
    /\ ResolverDone
    /\ \E a, b \in 1..Len(entities_list) :
           /\ a < b
           /\ Len(entities_list[a]) = Len(entities_list[b])
           /\ final_mapping[entities_list[b]] = entities_list[a]
    /\ \E a, b \in 1..Len(entities_list) :
           /\ a < b
           /\ Len(entities_list[a]) < Len(entities_list[b])
           /\ final_mapping[entities_list[a]] = entities_list[b]

(***************************************************************************)
(* Claims about the recursive search expander, checked under SpecSearch.   *)
(***************************************************************************)
\* every query run k has handed to the gateway, in the order of the calls
RECURSIVE Issued(_, _)
Issued(k, n) == IF n = 0 THEN <<>> ELSE Issued(k, n - 1) \o batches[k][n]

\* C2: within one category run no query is issued to the gateway more than
\* once: neither twice in one batch nor again in a later batch.
C2_NeverReissued ==
    \A k \in Runs :
        LET issued == Issued(k, Len(batches[k]))
        IN  \A a, b \in 1..Len(issued) : issued[a] = issued[b] => a = b

\* C3: a run whose gateway call failed at some depth has returned, has made
\* no call after the failed one, and holds exactly the results of the
\* earlier depths; super_search still returns, with every category's own
\* results, and does not raise.
C3_FailureContained ==
    \A k \in Runs :
        fail_depth[k] >= 0 =>
            /\ run_pc[k] = "returned"
            /\ Len(batches[k]) = fail_depth[k] + 1
            /\ DOMAIN all_results[k] = Range(Issued(k, fail_depth[k]))
            /\ ss_pc # "raised"
            /\ ss_pc = "done" =>
                   \A j \in Runs :
                       /\ search_types_list[j] \in DOMAIN aggregated_results
                       /\ aggregated_results[search_types_list[j]] = all_results[j]

\* super_search has returned after one run failed below depth 0 with
\* results in hand while another run went on and gathered more
C3_Witness ==
    /\ ss_pc = "done"
    /\ \E k, j \in Runs :
           /\ fail_depth[k] >= 1
           /\ fail_depth[j] = -1
           /\ all_results[k] # EmptyMap
           /\ DOMAIN all_results[k] # DOMAIN all_results[j]
           /\ DOMAIN all_results[k] \subseteq DOMAIN all_results[j]
           /\ aggregated_results[search_types_list[k]] = all_results[k]
           /\ aggregated_results[search_types_list[j]] = all_results[j]

\* the event loop runs every task that is ready
SpecSearchFair == SpecSearch /\ WF_vars(SearchNext)

\* every category run has returned
AllRunsReturned == \A k \in Runs : run_pc[k] = "returned"

\* run k has made one call at each of the depths 0, 1, ... in turn and none
\* beyond max_depth; once returned with fewer than max_depth + 1 calls, its
\* last call failed or it has no unprocessed query left
CallsWithinDepthBound(k) ==
    /\ Len(batches[k]) <= max_depth + 1
    /\ Len(batches[k]) = depth[k] + (IF fail_depth[k] >= 0 THEN 1 ELSE 0)
    /\ fail_depth[k] >= 0 => fail_depth[k] = depth[k]
    /\ (run_pc[k] = "returned" /\ Len(batches[k]) < max_depth + 1)
           => (fail_depth[k] >= 0 \/ NextBatch(k) = <<>>)
    /\ (run_pc[k] = "loop" /\ depth[k] <= max_depth /\ NextBatch(k) # <<>>)
           => ~ENABLED RunReturn(k)

Suggestions(result) ==
    SubSeq(result.relatedSearches, 1,
           IF Len(result.relatedSearches) < max_related_searches
           THEN Len(result.relatedSearches) ELSE max_related_searches)

\* the candidates the result of query q adds for run k after the call
Contribution(k, q) ==
    SelectSeq(Suggestions(all_results'[k][q]),
              LAMBDA c : c # "" /\ c \notin processed_queries'[k])

\* the contributions of the results of a batch, in the order of the batch
RECURSIVE Contributions(_, _, _)
Contributions(k, batch, n) ==
    IF n > Len(batch) THEN <<>>
    ELSE Contribution(k, batch[n]) \o Contributions(k, batch, n + 1)

\* what C23 says of a step in which run k issues a batch
ExpansionStep(k) ==
    batches'[k] # batches[k] =>
        LET d     == Len(batches[k])
            batch == batches'[k][d + 1]
        IN  /\ d >= 1 =>
                   \A q \in Range(batch) :
                       \E p \in Range(batches[k][d]) :
                           q \in Range(all_results[k][p].relatedSearches)
            /\ fail_depth'[k] = -1 =>
                   /\ \A n \in 1..Len(batch) :
                          Len(Contribution(k, batch[n])) <= max_related_searches
                   /\ d < max_depth =>
                          queries_to_process'[k] = Contributions(k, batch, 1)
                   /\ d >= max_depth => queries_to_process'[k] = <<>>
                   /\ max_related_searches = 0 => queries_to_process'[k] = <<>>

\* C23: each result of a call at a depth below max_depth adds at most
\* max_related_searches of its related-search suggestions to the candidates
\* of the next depth, a result at depth max_depth adds none, no candidate
\* arises when max_related_searches is 0, and every query issued at depth 1
\* or deeper was suggested by a result of the depth before.
C23_BoundedExpansion == [][\A k \in Runs : ExpansionStep(k)]_vars

\* a result with three suggestions contributed under a limit of two: its
\* first suggestion was issued at depth 1, its third was never a candidate
C23_Witness ==
    /\ max_related_searches = 2
    /\ \E k \in Runs :
           /\ Len(batches[k]) = 2
           /\ batches[k][1] = <<"q1">>
           /\ all_results[k]["q1"].relatedSearches = <<"q2", "", "q3">>
           /\ batches[k][2] = <<"q2">>
           /\ "q3" \notin processed_queries[k]

\* run k carried out alone from depth d on, with the answers and the
\* failure the gateway gave run k; ok is FALSE when it would issue a query
\* run k got no answer for
RECURSIVE SoloRun(_, _, _, _, _)
SoloRun(k, d, to_process, processed, results) ==
    LET batch == current_queries(to_process, processed)
        seen  == processed \cup Range(batch)
    IN  IF d > max_depth \/ batch = <<>>
        THEN [results |-> results, processed |-> processed, ok |-> TRUE]
        ELSE IF fail_depth[k] = d
        THEN [results |-> results, processed |-> seen, ok |-> TRUE]
        ELSE IF \E q \in Range(batch) : q \notin DOMAIN all_results[k]
        THEN [results |-> results, processed |-> seen, ok |-> FALSE]
        ELSE LET result_list == [n \in 1..Len(batch) |-> all_results[k][batch[n]]]
                 out == process_results(result_list, results, <<>>, seen, d, 1)
             IN  SoloRun(k, d + 1, out[2], seen, out[1])

\* the local state of run k
RunState(k) ==
    <<all_results[k], queries_to_process[k], processed_queries[k], depth[k],
      run_pc[k], batches[k], fail_depth[k]>>

RECURSIVE SumOfCounts(_)
SumOfCounts(S) ==
    IF S = {} THEN 0
    ELSE LET k == CHOOSE j \in S : TRUE
         IN  Cardinality(processed_queries[k]) + SumOfCounts(S \ {k})

\* a returned run holds what it would hold had it run alone, and the
\* aggregate holds each run's results under its category and the sum of the
\* counts
AsIfAlone ==
    /\ \A k \in Runs :
           run_pc[k] = "returned" =>
               LET solo == SoloRun(k, 0, queries, {}, EmptyMap)
               IN  /\ solo.ok
                   /\ all_results[k] = solo.results
                   /\ processed_queries[k] = solo.processed
    /\ ss_pc = "done" =>
           /\ DOMAIN aggregated_results = Range(search_types_list)
           /\ \A k \in Runs : aggregated_results[search_types_list[k]] = all_results[k]
           /\ total_queries_processed = SumOfCounts(Runs)

\* a step changes the local state of one run at most, and none once the
\* runs are joined
OneRunPerStep ==
    /\ \A k, j \in Runs :
           (RunState(k)' # RunState(k) /\ RunState(j)' # RunState(j)) => k = j
    /\ <<aggregated_results, total_queries_processed>>'
           # <<aggregated_results, total_queries_processed>>
               => \A k \in Runs : RunState(k)' = RunState(k)

\* C29: the category runs of one super_search call do not interfere: however
\* their steps interleave, each run ends with the result mapping and the
\* processed-query count it would have had alone, its results are stored
\* under its own category, and total_queries_processed is the sum of the
\* runs' counts.
C29_RunsIndependent == []AsIfAlone /\ [][OneRunPerStep]_vars

\* super_search returned after two runs that were given different answers
\* and processed different numbers of queries
C29_Witness ==
    /\ ss_pc = "done"
    /\ Len(search_types_list) = 2
    /\ all_results[1] # EmptyMap
    /\ all_results[2] # EmptyMap
    /\ Cardinality(processed_queries[1]) # Cardinality(processed_queries[2])
    /\ fail_depth[1] = -1
    /\ fail_depth[2] = -1
    /\ aggregated_results["search"] # aggregated_results["news"]
    /\ total_queries_processed
           = Cardinality(processed_queries[1]) + Cardinality(processed_queries[2])

(***************************************************************************)
(* analyze_topic: document collection (phase 1), content scraping          *)
(* (phase 2), the credential check that opens phase 3, and the later       *)
(* phases in outline.                                                      *)
(***************************************************************************)
\* item.get("link") of an item without a link
NoLink == "None"

\* a result object with its organic, news and scholar links
ResultData(organic, news, scholar) ==
    [organic |-> organic, news |-> news, scholar |-> scholar]

\* the result objects, over all categories and queries in the order of the
\* scan, that super_search returns
SearchOutcomes ==
    { <<>>,
      << ResultData(<<"u1", "u2">>, <<>>, <<>>) >>,
      << ResultData(<<"u1", "u1", "u2">>, <<>>, <<>>),
         ResultData(<<>>, <<"u2", "u3">>, <<>>) >>,
      << ResultData(<<NoLink, "u1">>, <<"u3">>, <<"u2">>) >> }

\* what scrape_url does for a URL: returns markdown, returns "", raises
ScrapeOutcomes == {"content", "empty", "raised"}

\* lines 820-833: the links in the order the nested loops visit them
RECURSIVE scan_items(_)
scan_items(results) ==
    IF results = <<>> THEN <<>>
    ELSE Head(results).organic \o Head(results).news \o Head(results).scholar
         \o scan_items(Tail(results))

\* a cap test that lets one URL too many in
add_url_off_by_one(urls, link) ==
    IF Cardinality(urls) <= max_urls_per_query THEN urls \cup {link} ELSE urls

\* lines 824-825: if len(urls_to_scrape) < max_urls_per_query: add
add_url(urls, link) ==
    IF Cardinality(urls) < max_urls_per_query THEN urls \cup {link} ELSE urls

Pending == [kind |-> "pending"]

None == [kind |-> "none"]

Document(url) == [kind |-> "doc", url |-> url, content |-> "markdown"]

\* a task that takes an empty answer for a document
scrape_single_url_keeps_empty(url, outcome) ==
    IF outcome \in {"content", "empty"} THEN Document(url) ELSE None

\* lines 841-856: the value of scrape_single_url given what scrape_url did
scrape_single_url(url, outcome) ==
    IF outcome = "content" THEN Document(url) ELSE None

\* lines 862-865: the results that are neither None nor exceptions
RECURSIVE successful(_)
successful(results) ==
    IF results = <<>> THEN <<>>
    ELSE IF Head(results).kind = "doc"
         THEN <<Head(results)>> \o successful(Tail(results))
         ELSE successful(Tail(results))

AnalyzeInit ==
    /\ key_set \in BOOLEAN
    /\ max_urls_per_query \in 1..MaxUrls
    /\ search_results = <<>>
    /\ super_search_calls = 0
    /\ scan_pos = 0
    /\ urls_to_scrape = {}
    /\ urls_list = <<>>
    /\ scrape_outcome = <<>>
    /\ scrape_calls = <<>>
    /\ scraping_results = <<>>
    /\ scraped_content = <<>>
    /\ doc_pos = 0
    /\ llm_calls = 0
    /\ graph_built = FALSE
    /\ a_result = "none"
    /\ a_pc = "search"
    /\ ResolverIdle
    /\ SearchIdle
    /\ RHFIdle
    /\ GraphIdle
    /\ ToolsIdle
    /\ SecureIdle
    /\ FilterIdle
    /\ CleanIdle

\* lines 799-814: phase 1, the call of super_search
AnalyzeSearch ==
    /\ a_pc = "search"
    /\ \E outcome \in SearchOutcomes : search_results' = outcome
    /\ super_search_calls' = super_search_calls + 1
    /\ scan_pos' = 1
    /\ a_pc' = "collect"
    /\ UNCHANGED <<key_set, max_urls_per_query, urls_to_scrape, urls_list,
                   scrape_outcome, scrape_calls, scraping_results, scraped_content,
                   doc_pos, llm_calls, graph_built, a_result>>
    /\ UNCHANGED outsideAnalyze

\* lines 820-833: the scan visits one item
CollectStep ==
    /\ a_pc = "collect"
    /\ scan_pos <= Len(scan_items(search_results))
    /\ urls_to_scrape' = add_url(urls_to_scrape, scan_items(search_results)[scan_pos])
    /\ scan_pos' = scan_pos + 1
    /\ UNCHANGED <<key_set, max_urls_per_query, search_results, super_search_calls,
                   urls_list, scrape_outcome, scrape_calls, scraping_results,
                   scraped_content, doc_pos, llm_calls, graph_built, a_result, a_pc>>
    /\ UNCHANGED outsideAnalyze

\* lines 835-859: the scan is over; the tasks are created
CollectDone ==
    /\ a_pc = "collect"
    /\ scan_pos > Len(scan_items(search_results))
    /\ \E order \in Orderings(urls_to_scrape) : urls_list' = order
    /\ scrape_outcome' = [i \in 1..Cardinality(urls_to_scrape) |-> "pending"]
    /\ scrape_calls' = [i \in 1..Cardinality(urls_to_scrape) |-> 0]
    /\ scraping_results' = [i \in 1..Cardinality(urls_to_scrape) |-> Pending]
    /\ a_pc' = "scrape"
    /\ UNCHANGED <<key_set, max_urls_per_query, search_results, super_search_calls,
                   scan_pos, urls_to_scrape, scraped_content, doc_pos, llm_calls,
                   graph_built, a_result>>
    /\ UNCHANGED outsideAnalyze

\* lines 841-856: the task of one URL runs; a missing link is not scraped
ScrapeOne(i) ==
    /\ a_pc = "scrape"
    /\ scraping_results[i] = Pending
    /\ IF urls_list[i] = NoLink
       THEN /\ scrape_outcome' = [scrape_outcome EXCEPT ![i] = "skipped"]
            /\ scraping_results' = [scraping_results EXCEPT ![i] = None]
            /\ UNCHANGED scrape_calls
       ELSE \E outcome \in ScrapeOutcomes :
                /\ scrape_outcome' = [scrape_outcome EXCEPT ![i] = outcome]
                /\ scrape_calls' = [scrape_calls EXCEPT ![i] = @ + 1]
                /\ scraping_results' =
                       [scraping_results EXCEPT ![i] = scrape_single_url(urls_list[i], outcome)]
    /\ UNCHANGED <<key_set, max_urls_per_query, search_results, super_search_calls,
                   scan_pos, urls_to_scrape, urls_list, scraped_content, doc_pos,
                   llm_calls, graph_built, a_result, a_pc>>
    /\ UNCHANGED outsideAnalyze

\* lines 860-867: the join of the tasks and the filter of their results
ScrapeJoin ==
    /\ a_pc = "scrape"
    /\ \A i \in 1..Len(urls_list) : scraping_results[i] # Pending
    /\ scraped_content' = successful(scraping_results)
    /\ a_pc' = "keycheck"
    /\ UNCHANGED <<key_set, max_urls_per_query, search_results, super_search_calls,
                   scan_pos, urls_to_scrape, urls_list, scrape_outcome, scrape_calls,
                   scraping_results, doc_pos, llm_calls, graph_built, a_result>>
    /\ UNCHANGED outsideAnalyze

\* a phase 3 that starts without looking at the credential
KeyCheckSkipped ==
    /\ a_pc = "keycheck"
    /\ doc_pos' = 1
    /\ a_pc' = "extract"
    /\ UNCHANGED <<key_set, max_urls_per_query, search_results, super_search_calls,
                   scan_pos, urls_to_scrape, urls_list, scrape_outcome, scrape_calls,
                   scraping_results, scraped_content, llm_calls, graph_built, a_result>>
    /\ UNCHANGED outsideAnalyze

\* lines 869-880: phase 3 opens with the test of OPENAI_API_KEY
KeyCheck ==
    /\ a_pc = "keycheck"
    /\ IF ~key_set
       THEN /\ a_result' = "Error"
            /\ a_pc' = "done"
            /\ UNCHANGED doc_pos
       ELSE /\ doc_pos' = 1
            /\ a_pc' = "extract"
            /\ UNCHANGED a_result
    /\ UNCHANGED <<key_set, max_urls_per_query, search_results, super_search_calls,
                   scan_pos, urls_to_scrape, urls_list, scrape_outcome, scrape_calls,
                   scraping_results, scraped_content, llm_calls, graph_built>>
    /\ UNCHANGED outsideAnalyze

\* lines 1051-1057: the RHF pipeline runs on one document and returns; it
\* requests at least the completion of step 1
ExtractDocument ==
    /\ a_pc = "extract"
    /\ doc_pos <= Len(scraped_content)
    /\ llm_calls' = llm_calls + 1
    /\ doc_pos' = doc_pos + 1
    /\ UNCHANGED <<key_set, max_urls_per_query, search_results, super_search_calls,
                   scan_pos, urls_to_scrape, urls_list, scrape_outcome, scrape_calls,
                   scraping_results, scraped_content, graph_built, a_result, a_pc>>
    /\ UNCHANGED outsideAnalyze

\* lines 938, 981, 1055: the RHF pipeline raises out of a loop that no try
\* block covers, and analyze_topic raises with it
ExtractDocumentRaises ==
    /\ a_pc = "extract"
    /\ doc_pos <= Len(scraped_content)
    /\ llm_calls' = llm_calls + 1
    /\ a_pc' = "raised"
    /\ UNCHANGED <<key_set, max_urls_per_query, search_results, super_search_calls,
                   scan_pos, urls_to_scrape, urls_list, scrape_outcome, scrape_calls,
                   scraping_results, scraped_content, doc_pos, graph_built, a_result>>
    /\ UNCHANGED outsideAnalyze

\* lines 1059-1190: entity resolution, graph construction, analysis,
\* summaries and the report
BuildGraphAndReport ==
    /\ a_pc = "extract"
    /\ doc_pos > Len(scraped_content)
    /\ graph_built' = TRUE
    /\ a_result' = "Report"
    /\ a_pc' = "done"
    /\ UNCHANGED <<key_set, max_urls_per_query, search_results, super_search_calls,
                   scan_pos, urls_to_scrape, urls_list, scrape_outcome, scrape_calls,
                   scraping_results, scraped_content, doc_pos, llm_calls>>
    /\ UNCHANGED outsideAnalyze

AnalyzeNext ==
    \/ AnalyzeSearch
    \/ CollectStep
    \/ CollectDone
    \/ \E i \in 1..Len(urls_list) : ScrapeOne(i)
    \/ ScrapeJoin
    \/ KeyCheck
    \/ ExtractDocument
    \/ ExtractDocumentRaises
    \/ BuildGraphAndReport

SpecAnalyze == AnalyzeInit /\ [][AnalyzeNext]_vars

\* C12 as stated: with max_depth = 0 every category run issues exactly one
\* batched gateway call, whatever the initial query list.
C12_ExactlyOneCall ==
    \A k \in Runs :
        (max_depth = 0 /\ run_pc[k] = "returned") => Len(batches[k]) = 1

\* C12: with max_depth = 0 a category run issues at most one batched
\* gateway call, exactly one once it has returned from a non-empty initial
\* list, that call carries the initial queries, and no related search is
\* collected from its results, whatever max_related_searches is.
C12_DepthZeroOneCall ==
    \A k \in Runs :
        max_depth = 0 =>
            /\ Len(batches[k]) <= 1
            /\ Len(batches[k]) = 1 =>
                   /\ batches[k][1] = queries
                   /\ queries_to_process[k] = <<>>
            /\ run_pc[k] = "returned" =>
                   Len(batches[k]) = (IF queries = <<>> THEN 0 ELSE 1)

\* a depth-0 run that got suggestions back while related searches were on
C12_Witness ==
    \E k \in Runs :
        /\ max_depth = 0
        /\ max_related_searches > 0
        /\ run_pc[k] = "returned"
        /\ Len(batches[k]) = 1
        /\ \E q \in DOMAIN all_results[k] : all_results[k][q].relatedSearches # <<>>

(***************************************************************************)
(* Claims about analyze_topic, checked under SpecAnalyze.                  *)
(***************************************************************************)
Scraped == a_pc \in {"keycheck", "extract", "done", "raised"}

\* the documents of the URLs whose scrape returned non-empty content
RECURSIVE ContentDocuments(_)
ContentDocuments(i) ==
    IF i > Len(urls_list) THEN <<>>
    ELSE IF scrape_outcome[i] = "content"
         THEN <<Document(urls_list[i])>> \o ContentDocuments(i + 1)
         ELSE ContentDocuments(i + 1)

\* C5: without OPENAI_API_KEY analyze_topic does not raise, requests no
\* LLM completion, builds no graph, and what it returns is the error result.
C5_MissingKeyIsStructuredError ==
    ~key_set =>
        /\ a_pc # "raised"
        /\ llm_calls = 0
        /\ ~graph_built
        /\ a_pc = "done" => a_result = "Error"
        /\ a_result # "Report"

\* the error result was returned although documents had been collected
C5_Witness ==
    /\ ~key_set
    /\ a_pc = "done"
    /\ a_result = "Error"
    /\ scraped_content # <<>>

\* C6: when the credential is missing the error result is returned before
\* any search expansion or scrape call has been issued.
C6_CheckedUpFront ==
    (~key_set /\ a_result = "Error") =>
        /\ super_search_calls = 0
        /\ \A i \in 1..Len(scrape_calls) : scrape_calls[i] = 0

\* C7: once the scrapes are joined the collected documents are exactly the
\* URLs whose scrape returned non-empty content, in task order; a URL is
\* scraped at most once, whatever its outcome and that of the others.
C7_ExactlyTheSuccessfulScrapes ==
    /\ \A i \in 1..Len(scrape_calls) : scrape_calls[i] <= 1
    /\ Scraped =>
           /\ scraped_content = ContentDocuments(1)
           /\ \A i \in 1..Len(urls_list) :
                  scrape_calls[i] = IF urls_list[i] = NoLink THEN 0 ELSE 1

\* two URLs were scraped, one gave content and one raised or was empty, and
\* the pipeline went on with the one document
C7_Witness ==
    /\ Scraped
    /\ Len(scraped_content) = 1
    /\ \E i, j \in 1..Len(urls_list) :
           /\ scrape_outcome[i] = "content"
           /\ scrape_outcome[j] \in {"raised", "empty"}

IsDigit(c) == c \in {"0", "1", "2", "3", "4", "5", "6", "7", "8", "9"}

IsLetter(c) == \E k \in 1..26 : UpperChars[k] = c \/ LowerChars[k] = c

AllDigits(s, n) == n >= 1 /\ n <= Len(s) /\ \A k \in 1..n : IsDigit(s[k])

\* re.match(r'^\d+\.', s)
matches_list_marker(s) ==
    \E n \in 1..Len(s) : AllDigits(s, n) /\ n < Len(s) /\ s[n + 1] = "."

\* re.match(r'^\d+%$', s); $ also matches before one final newline
matches_percentage(s) ==
    \/ Len(s) >= 2 /\ AllDigits(s, Len(s) - 1) /\ s[Len(s)] = "%"
    \/ Len(s) >= 3 /\ AllDigits(s, Len(s) - 2) /\ s[Len(s) - 1] = "%" /\ s[Len(s)] = "\n"

\* re.match(r'^\d+$', s)
matches_number(s) ==
    \/ AllDigits(s, Len(s))
    \/ Len(s) >= 2 /\ AllDigits(s, Len(s) - 1) /\ s[Len(s)] = "\n"

\* re.match(r'^[a-zA-Z]$', s)
matches_single_letter(s) ==
    \/ Len(s) = 1 /\ IsLetter(s[1])
    \/ Len(s) = 2 /\ IsLetter(s[1]) /\ s[2] = "\n"

stopwords ==
    { <<"t","h","e">>, <<"a","n","d">>, <<"o","r">>, <<"b","u","t">>,
      <<"i","n">>, <<"o","n">>, <<"a","t">>, <<"t","o">>, <<"f","o","r">>,
      <<"o","f">>, <<"w","i","t","h">>, <<"b","y">>, <<"f","r","o","m">>,
      <<"u","p">>, <<"a","b","o","u","t">>, <<"i","n","t","o">>,
      <<"t","h","r","o","u","g","h">>, <<"d","u","r","i","n","g">>,
      <<"b","e","f","o","r","e">>, <<"a","f","t","e","r">>,
      <<"a","b","o","v","e">>, <<"b","e","l","o","w">>,
      <<"b","e","t","w","e","e","n">>, <<"a","m","o","n","g">>,
      <<"t","h","i","s">>, <<"t","h","a","t">>, <<"t","h","e","s","e">>,
      <<"t","h","o","s","e">>, <<"i","t">>, <<"t","h","e","y">>,
      <<"t","h","e","m">>, <<"t","h","e","i","r">>,
      <<"t","h","e","r","e">>, <<"h","e","r","e">>,
      <<"w","h","e","r","e">>, <<"w","h","e","n">>,
      <<"i","n","c","r","e","a","s","e">>, <<"i","m","p","r","o","v","e">>,
      <<"d","e","v","e","l","o","p">>, <<"s","u","p","p","o","r","t">>,
      <<"r","e","l","a","t","e","d">>, <<"c","o","n","c","e","p","t">>,
      <<"t","h","i","n","g">> }

\* lines 673-702
is_valid_entity(entity_name) ==
    IF Len(entity_name) < 3 THEN FALSE
    ELSE IF \/ matches_list_marker(Strip(entity_name))
            \/ matches_percentage(Strip(entity_name))
            \/ matches_number(Strip(entity_name))
            \/ matches_single_letter(Strip(entity_name))
    THEN FALSE
    ELSE Normalize(entity_name) \notin stopwords

\* longest run of blanks put before or after a name
MaxPad == 2

\* largest number of calls of the filter
MaxFilterCalls == 2

\* str.upper() on one character
UpperChar(c) ==
    IF \E k \in 1..26 : LowerChars[k] = c
    THEN UpperChars[CHOOSE k \in 1..26 : LowerChars[k] = c]
    ELSE c

\* str.upper()
Upper(s) == [k \in 1..Len(s) |-> UpperChar(s[k])]

\* n blanks
Blanks(n) == [k \in 1..n |-> " "]

\* the names the filter is called with: a short word, a letter, stopwords,
\* names, numbers, a list marker and a percentage, in three spellings and
\* with blanks around them
BaseNames ==
    { <<"a","b">>, <<"a">>, <<"i","n">>, <<"t","h","e">>, <<"S","u","n">>,
      <<"M","o","o","n">>, <<"1","2">>, <<"1","2","3">>, <<"1",".">>, <<"5","%">> }

NameUniverse ==
    { Blanks(l) \o spelling \o Blanks(r) :
          l \in 0..MaxPad, r \in 0..MaxPad,
          spelling \in UNION {{b, Lower(b), Upper(b)} : b \in BaseNames} }

FilterInit ==
    /\ f_name = <<>>
    /\ f_verdict = FALSE
    /\ f_calls = 0
    /\ ResolverIdle
    /\ SearchIdle
    /\ AnalyzeIdle
    /\ RHFIdle
    /\ GraphIdle
    /\ ToolsIdle
    /\ SecureIdle
    /\ CleanIdle

\* one call of _is_valid_entity
IsValidEntity ==
    /\ f_calls < MaxFilterCalls
    /\ \E name \in NameUniverse :
           /\ f_name' = name
           /\ f_verdict' = is_valid_entity(name)
    /\ f_calls' = f_calls + 1
    /\ UNCHANGED outsideFilter

FilterNext == IsValidEntity

SpecFilter == FilterInit /\ [][FilterNext]_vars

\* C27: the verdict of the entity quality filter on a string is its verdict
\* on the string without surrounding whitespace and on its lower-case and
\* upper-case spellings; a string whose trimmed form has fewer than 3
\* characters is rejected.
C27_CaseAndWhitespaceInsensitive ==
    f_calls > 0 =>
        /\ f_verdict = is_valid_entity(Strip(f_name))
        /\ f_verdict = is_valid_entity(Lower(f_name))
        /\ f_verdict = is_valid_entity(Upper(f_name))
        /\ Len(Strip(f_name)) < 3 => ~f_verdict

(***************************************************************************)
(* Cleaning of a gateway response (_process_and_clean_results).  A JSON    *)
(* value is a string, a number, an object (its fields in order) or a list. *)
(***************************************************************************)
\* deepest nesting of objects and lists in a response
MaxNesting == 2

\* largest number of calls of the cleaning function
MaxCleanCalls == 2

Str(chars) == [kind |-> "str", chars |-> chars, fields |-> <<>>, items |-> <<>>]

Number == [kind |-> "number", chars |-> <<>>, fields |-> <<>>, items |-> <<>>]

Field(key, value) == [key |-> key, value |-> value]

Dict(fields) == [kind |-> "dict", chars |-> <<>>, fields |-> fields, items |-> <<>>]

List(items) == [kind |-> "list", chars |-> <<>>, fields |-> <<>>, items |-> items]

DataImage == <<"d","a","t","a",":","i","m","a","g","e">>

\* "[Truncated base64 image data]"
Placeholder == Str(<<"[","T","r","u","n","c","a","t","e","d","]">>)

\* the leaves of a response: two base64 image URLs, two strings that only
\* resemble one, a web address, and a number
Leaves ==
    { Str(DataImage \o <<"/","p","n","g",";","A","B">>), Str(DataImage),
      Str(<<"d","a","t","a",":","t","e","x","t">>),
      Str(<<"D","a","t","a",":","i","m","a","g","e">>),
      Str(<<"h","t","t","p","s",":","/","/","x">>), Number }

\* the values nested at most d deep
RECURSIVE JsonValues(_)
JsonValues(d) ==
    IF d = 0 THEN Leaves
    ELSE LET sub == JsonValues(d - 1)
         IN  sub \cup {Dict(<<Field(k, v)>>) : k \in {"imageUrl", "title"}, v \in sub}
                 \cup {Dict(<<Field("title", Number), Field("imageUrl", v)>>) : v \in sub}
                 \cup {List(<<v>>) : v \in sub}
                 \cup {List(<<v, Str(DataImage)>>) : v \in sub}

\* lines 376-377: the test on a dictionary's own imageUrl value
is_base64_image(value) == value.kind = "str" /\ StartsWith(value.chars, DataImage)

\* a cleaning that does not descend into lists
RECURSIVE process_and_clean_dicts_only(_)
process_and_clean_dicts_only(data) ==
    IF data.kind = "dict"
    THEN Dict([i \in 1..Len(data.fields) |->
                  Field(data.fields[i].key,
                        IF /\ data.fields[i].key = "imageUrl"
                           /\ is_base64_image(data.fields[i].value)
                        THEN Placeholder
                        ELSE process_and_clean_dicts_only(data.fields[i].value))])
    ELSE data

\* lines 370-388; the value put under imageUrl is a string and comes back
\* from the recursive call as it is
RECURSIVE process_and_clean_results(_)
process_and_clean_results(data) ==
    IF data.kind = "dict"
    THEN Dict([i \in 1..Len(data.fields) |->
                  Field(data.fields[i].key,
                        process_and_clean_results(
                            IF /\ data.fields[i].key = "imageUrl"
                               /\ is_base64_image(data.fields[i].value)
                            THEN Placeholder
                            ELSE data.fields[i].value))])
    ELSE IF data.kind = "list"
    THEN List([i \in 1..Len(data.items) |-> process_and_clean_results(data.items[i])])
    ELSE data

CleanInit ==
    /\ c_data = <<>>
    /\ c_cleaned = <<>>
    /\ c_calls = 0
    /\ ResolverIdle
    /\ SearchIdle
    /\ AnalyzeIdle
    /\ RHFIdle
    /\ GraphIdle
    /\ ToolsIdle
    /\ SecureIdle
    /\ FilterIdle

\* line 430: the expander cleans the response of a gateway call
ProcessAndCleanResults ==
    /\ c_calls < MaxCleanCalls
    /\ \E results \in JsonValues(MaxNesting) :
           /\ c_data' = results
           /\ c_cleaned' = process_and_clean_results(results)
    /\ c_calls' = c_calls + 1
    /\ UNCHANGED outsideClean

CleanNext == ProcessAndCleanResults

SpecClean == CleanInit /\ [][CleanNext]_vars

\* no object inside data has an imageUrl field holding a base64 image URL
RECURSIVE NoBase64Image(_)
NoBase64Image(data) ==
    /\ \A i \in 1..Len(data.fields) :
           /\ ~(data.fields[i].key = "imageUrl" /\ is_base64_image(data.fields[i].value))
           /\ NoBase64Image(data.fields[i].value)
    /\ \A i \in 1..Len(data.items) : NoBase64Image(data.items[i])

\* after is before, but for the placeholder in the place of every base64
\* image URL held by an imageUrl field
RECURSIVE SameButPlaceholders(_, _)
SameButPlaceholders(before, after) ==
    /\ after.kind = before.kind
    /\ after.chars = before.chars
    /\ Len(after.fields) = Len(before.fields)
    /\ Len(after.items) = Len(before.items)
    /\ \A i \in 1..Len(before.fields) :
           /\ after.fields[i].key = before.fields[i].key
           /\ IF /\ before.fields[i].key = "imageUrl"
                 /\ is_base64_image(before.fields[i].value)
              THEN after.fields[i].value = Placeholder
              ELSE SameButPlaceholders(before.fields[i].value, after.fields[i].value)
    /\ \A i \in 1..Len(before.items) :
           SameButPlaceholders(before.items[i], after.items[i])

\* C28: a cleaned response holds, at no depth of objects and lists, an
\* imageUrl field whose value is a string starting with "data:image"; every
\* such value has become the placeholder and every other field and value is
\* as the gateway returned it.
C28_Base64ImagesReplaced ==
    c_calls > 0 =>
        /\ NoBase64Image(c_cleaned)
        /\ SameButPlaceholders(c_data, c_cleaned)

\* a base64 image URL two levels down was replaced while the same string as
\* a list item next to it was kept
C28_Witness ==
    /\ c_calls > 0
    /\ c_data = List(<<Dict(<<Field("imageUrl", Str(DataImage))>>), Str(DataImage)>>)
    /\ c_cleaned = List(<<Dict(<<Field("imageUrl", Placeholder)>>), Str(DataImage)>>)

(***************************************************************************)
(* analyze_topic: the RHF pipeline (_run_rhf_pipeline_on_document) and the *)
(* loop that runs it on every scraped document.  A completion either      *)
(* fails (the call raises, there is no tool call, the function name is     *)
(* wrong, the arguments are not JSON or not a JSON object) or carries the  *)
(* value of the field the step reads: missing, null, a number, or a list.  *)
(***************************************************************************)
FailureKinds == {"exception", "no_tool_calls", "wrong_name", "bad_json", "not_object"}

Failure(kind) == [kind |-> kind, value |-> "none", items |-> <<>>]

ToolCall(value, items) == [kind |-> "tool_call", value |-> value, items |-> items]

FailedResponses == {Failure(kind) : kind \in FailureKinds}

\* the field is absent, is null, or is a list without items
EmptyResponses == {ToolCall("missing", <<>>), ToolCall("null", <<>>), ToolCall("list", <<>>)}

\* the field is a nonzero number
NumberResponse == ToolCall("number", <<>>)

E_the == <<"t","h","e">>

\* an item of "facts": an object with tail_entity and tail_entity_type, or
\* something that is not an object
Fact(tail, type) == [is_object |-> TRUE, tail_entity |-> tail, tail_entity_type |-> type]

NotAnObject == [is_object |-> FALSE, tail_entity |-> <<>>, tail_entity_type |-> "none"]

RelationLists == {<<"r1">>, <<"r1", "r2">>}

HeadLists == {<<E_Sun>>, <<E_the, E_Moon>>}

FactLists ==
    { <<Fact(E_Moon, "Location")>>,
      <<Fact(E_Sunny, "Person"), NotAnObject>>,
      <<Fact(<<>>, "Concept"), Fact(E_the, "missing")>>,
      <<NotAnObject, Fact(E_Moon, "Location")>> }

\* the strength of every extracted fact, 0.8, in tenths
FactStrength == 8

\* lines 1036-1043
Relationship(head, relation, fact) ==
    [source |-> head, source_type |-> "Unknown", target |-> fact.tail_entity,
     target_type |-> IF fact.tail_entity_type = "missing" THEN "Unknown"
                     ELSE fact.tail_entity_type,
     relationship |-> relation, strength |-> FactStrength]

\* lines 1033-1045: the loop over facts appends until an item raises
RECURSIVE append_facts(_, _, _, _, _)
append_facts(rels, head, relation, facts, k) ==
    IF k > Len(facts) THEN rels
    ELSE IF ~facts[k].is_object THEN rels
    ELSE append_facts(
             IF /\ facts[k].tail_entity # <<>>
                /\ is_valid_entity(head)
                /\ is_valid_entity(facts[k].tail_entity)
             THEN Append(rels, Relationship(head, relation, facts[k]))
             ELSE rels,
             head, relation, facts, k + 1)

RHFInit ==
    /\ document_count \in 1..MaxDocs
    /\ document_pos = 1
    /\ all_relations = <<>>
    /\ relation_pos = 0
    /\ head_entities = <<>>
    /\ head_pos = 0
    /\ document_relationships = <<>>
    /\ parsed_relationships = <<>>
    /\ llm_response = NoResponse
    /\ rhf_llm_calls = [d \in 1..document_count |-> 0]
    /\ rhf_pc = "step1"
    /\ ResolverIdle
    /\ SearchIdle
    /\ AnalyzeExtracting
    /\ GraphIdle
    /\ ToolsIdle
    /\ SecureIdle
    /\ FilterIdle
    /\ CleanIdle

\* lines 1047, 1055-1056: the pipeline returns rels; the next document
FinishDocument(rels) ==
    /\ parsed_relationships' = parsed_relationships \o rels
    /\ document_relationships' = <<>>
    /\ all_relations' = <<>>
    /\ relation_pos' = 0
    /\ head_entities' = <<>>
    /\ head_pos' = 0
    /\ IF document_pos < document_count
       THEN /\ document_pos' = document_pos + 1
            /\ rhf_pc' = "step1"
       ELSE /\ rhf_pc' = "done"
            /\ UNCHANGED document_pos

\* line 938: the loop over all_relations goes on
NextRelation(rels) ==
    IF relation_pos < Len(all_relations)
    THEN /\ relation_pos' = relation_pos + 1
         /\ head_entities' = <<>>
         /\ head_pos' = 0
         /\ document_relationships' = rels
         /\ rhf_pc' = "step2"
         /\ UNCHANGED <<all_relations, parsed_relationships, document_pos>>
    ELSE FinishDocument(rels)

\* line 981: the loop over head_entities goes on
NextHead(rels) ==
    IF head_pos < Len(head_entities)
    THEN /\ head_pos' = head_pos + 1
         /\ document_relationships' = rels
         /\ rhf_pc' = "step3"
         /\ UNCHANGED <<all_relations, relation_pos, head_entities,
                        parsed_relationships, document_pos>>
    ELSE NextRelation(rels)

\* the pipeline raises and analyze_topic with it
Raise ==
    /\ rhf_pc' = "raised"
    /\ UNCHANGED <<document_pos, all_relations, relation_pos, head_entities,
                   head_pos, document_relationships, parsed_relationships>>

\* a step 1 that raises instead of returning the empty list
Step1NoRelationsRaises ==
    /\ rhf_pc = "step1"
    /\ rhf_llm_calls' = [rhf_llm_calls EXCEPT ![document_pos] = @ + 1]
    /\ \E response \in FailedResponses \cup EmptyResponses : llm_response' = response
    /\ Raise
    /\ UNCHANGED document_count
    /\ UNCHANGED outsideRHF

\* lines 910-933: step 1 yields no relation and the pipeline returns []
Step1NoRelations ==
    /\ rhf_pc = "step1"
    /\ rhf_llm_calls' = [rhf_llm_calls EXCEPT ![document_pos] = @ + 1]
    /\ \E response \in FailedResponses \cup EmptyResponses : llm_response' = response
    /\ FinishDocument(<<>>)
    /\ UNCHANGED document_count
    /\ UNCHANGED outsideRHF

\* lines 928-938: "relations" is a nonzero number; the for statement of
\* line 938, outside the try block, raises TypeError
Step1NotIterable ==
    /\ rhf_pc = "step1"
    /\ rhf_llm_calls' = [rhf_llm_calls EXCEPT ![document_pos] = @ + 1]
    /\ llm_response' = NumberResponse
    /\ Raise
    /\ UNCHANGED document_count
    /\ UNCHANGED outsideRHF

\* lines 910-938: step 1 yields relations
Step1Relations ==
    /\ rhf_pc = "step1"
    /\ rhf_llm_calls' = [rhf_llm_calls EXCEPT ![document_pos] = @ + 1]
    /\ \E relations \in RelationLists :
           /\ llm_response' = ToolCall("list", relations)
           /\ all_relations' = relations
    /\ relation_pos' = 1
    /\ document_relationships' = <<>>
    /\ rhf_pc' = "step2"
    /\ UNCHANGED <<document_count, document_pos, head_entities, head_pos,
                   parsed_relationships>>
    /\ UNCHANGED outsideRHF

\* lines 959-981: step 2 fails, or yields no head; the next relation
Step2NoHeads ==
    /\ rhf_pc = "step2"
    /\ rhf_llm_calls' = [rhf_llm_calls EXCEPT ![document_pos] = @ + 1]
    /\ \E response \in FailedResponses \cup {ToolCall("missing", <<>>), ToolCall("list", <<>>)} :
           llm_response' = response
    /\ NextRelation(document_relationships)
    /\ UNCHANGED document_count
    /\ UNCHANGED outsideRHF

\* lines 976-981: "head_entities" is null or a number; the for statement
\* of line 981, outside the try block, raises TypeError
Step2NotIterable ==
    /\ rhf_pc = "step2"
    /\ rhf_llm_calls' = [rhf_llm_calls EXCEPT ![document_pos] = @ + 1]
    /\ \E response \in {ToolCall("null", <<>>), NumberResponse} : llm_response' = response
    /\ Raise
    /\ UNCHANGED document_count
    /\ UNCHANGED outsideRHF

\* lines 959-981: step 2 yields heads
Step2Heads ==
    /\ rhf_pc = "step2"
    /\ rhf_llm_calls' = [rhf_llm_calls EXCEPT ![document_pos] = @ + 1]
    /\ \E heads \in HeadLists :
           /\ llm_response' = ToolCall("list", heads)
           /\ head_entities' = heads
    /\ head_pos' = 1
    /\ rhf_pc' = "step3"
    /\ UNCHANGED <<document_count, document_pos, all_relations, relation_pos,
                   document_relationships, parsed_relationships>>
    /\ UNCHANGED outsideRHF

\* lines 1014-1045: step 3 fails before the loop over facts, or there is
\* no fact; the next head
Step3NoFacts ==
    /\ rhf_pc = "step3"
    /\ rhf_llm_calls' = [rhf_llm_calls EXCEPT ![document_pos] = @ + 1]
    /\ \E response \in FailedResponses \cup EmptyResponses \cup {NumberResponse} :
           llm_response' = response
    /\ NextHead(document_relationships)
    /\ UNCHANGED document_count
    /\ UNCHANGED outsideRHF

\* lines 1014-1045: step 3 yields facts; the next head
Step3Facts ==
    /\ rhf_pc = "step3"
    /\ rhf_llm_calls' = [rhf_llm_calls EXCEPT ![document_pos] = @ + 1]
    /\ \E facts \in FactLists :
           /\ llm_response' = ToolCall("list", facts)
           /\ NextHead(append_facts(document_relationships, head_entities[head_pos],
                                    all_relations[relation_pos], facts, 1))
    /\ UNCHANGED document_count
    /\ UNCHANGED outsideRHF

RHFNext ==
    \/ Step1NoRelations
    \/ Step1NotIterable
    \/ Step1Relations
    \/ Step2NoHeads
    \/ Step2NotIterable
    \/ Step2Heads
    \/ Step3NoFacts
    \/ Step3Facts

SpecRHF == RHFInit /\ [][RHFNext]_vars

(***************************************************************************)
(* Claims about the RHF pipeline, checked under SpecRHF.                   *)
(***************************************************************************)
\* every relationship extracted so far
ExtractedSoFar == parsed_relationships \o document_relationships

\* the completion is a failed call: it raised, has no tool call, names the
\* wrong function, or its arguments are malformed or ill-typed
FailedCall(response, step) ==
    \/ response.kind \in FailureKinds
    \/ response.kind = "tool_call" /\ response.value \in {"null", "number"}
    \/ /\ step = "step3"
       /\ response.kind = "tool_call"
       /\ response.value = "list"
       /\ \E k \in 1..Len(response.items) : ~response.items[k].is_object

\* C4: a failed LLM call at step 2 or step 3 adds no relationship and the
\* pipeline goes on with the next relation or head: it does not raise out
\* of the document's extraction nor out of the loop over the documents.
C4_GracefulDegradation ==
    [][(rhf_pc \in {"step2", "step3"} /\ FailedCall(llm_response', rhf_pc))
           => (rhf_pc' # "raised" /\ ExtractedSoFar' = ExtractedSoFar)]_vars

\* the fields C26 fixes, for each relationship of a list
Projected(rels) ==
    [k \in 1..Len(rels) |->
        [source |-> rels[k].source, source_type |-> rels[k].source_type,
         target |-> rels[k].target, relationship |-> rels[k].relationship,
         strength |-> rels[k].strength]]

\* one relationship for every fact with a non-empty tail whose head and tail
\* pass the filter, none for any other fact
RECURSIVE OnePerValidFact(_, _, _, _)
OnePerValidFact(head, relation, facts, k) ==
    IF k > Len(facts) THEN <<>>
    ELSE (IF /\ facts[k].tail_entity # <<>>
             /\ is_valid_entity(head)
             /\ is_valid_entity(facts[k].tail_entity)
          THEN << [source |-> head, source_type |-> "Unknown",
                   target |-> facts[k].tail_entity, relationship |-> relation,
                   strength |-> 8] >>
          ELSE <<>>)
         \o OnePerValidFact(head, relation, facts, k + 1)

\* C26: each fact returned at step 3 adds exactly one relationship with
\* source = head, source_type "Unknown", target = tail, the relation and
\* strength 0.8 when its tail is non-empty and head and tail pass the entity
\* quality filter, and adds nothing otherwise; every extracted relationship
\* has strength 0.8 and source_type "Unknown".
C26_EachFactOneRelationship ==
    [][(rhf_pc = "step3" /\ llm_response'.kind = "tool_call" /\ llm_response'.value = "list")
           => /\ Projected(ExtractedSoFar') =
                     Projected(ExtractedSoFar)
                         \o OnePerValidFact(head_entities[head_pos],
                                            all_relations[relation_pos],
                                            llm_response'.items, 1)
              /\ \A k \in 1..Len(ExtractedSoFar') :
                     /\ ExtractedSoFar'[k].strength = 8
                     /\ ExtractedSoFar'[k].source_type = "Unknown"]_vars

\* step 1 received no tool call, a wrong function name, an exception in the
\* call, or no relation
NoRelations(response) == response \in FailedResponses \cup EmptyResponses

\* C15: when step 1 yields zero relations the document's extraction ends
\* with that one LLM call: nothing is added to the relationships, no
\* step 2 or step 3 follows, nothing is raised, and the call count of a
\* finished document with a single call stays 1.
C15_NoRelationsNoWork ==
    [][(rhf_pc = "step1" /\ NoRelations(llm_response')) =>
          /\ rhf_pc' \in {"step1", "done"}
          /\ rhf_pc' = "step1" => document_pos' = document_pos + 1
          /\ ExtractedSoFar' = ExtractedSoFar
          /\ document_relationships' = <<>>
          /\ rhf_llm_calls'[document_pos] = 1]_vars

\* a document that was finished with its step-1 call alone
C15_Witness ==
    /\ rhf_pc \in {"step1", "done"}
    /\ \E d \in DOMAIN rhf_llm_calls :
           /\ rhf_llm_calls[d] = 1
           /\ d < document_pos \/ rhf_pc = "done"

(***************************************************************************)
(* Graph construction, centrality and summarization: phases 5 to 8 of      *)
(* analyze_topic.  The relationship list is what the RHF pipeline hands    *)
(* over, the canonical map is what the resolver returns for it.            *)
(***************************************************************************)
MaxGraphRels == 2

TopN == 5

E_Mars == <<"M","a","r","s">>

E_Venus == <<"V","e","n","u","s">>

E_Pluto == <<"P","l","u","t","o">>

E_Earth == <<"E","a","r","t","h">>

\* the relationships a short graph input is drawn from
GraphRelUniverse ==
    { Relationship(E_Sun, "r1", Fact(E_Moon, "Person")),
      Relationship(E_sun_sp, "r2", Fact(E_Moon, "missing")),
      Relationship(E_Moon, "r1", Fact(E_Sun, "Location")),
      Relationship(E_Sun, "r2", Fact(E_sun_sp, "Person")),
      Relationship(E_Mars, "r2", Fact(E_Moon, "Location")) }

\* an input with more than TopN entities, the last of them well connected
LongRelLists ==
    { << Relationship(E_Sun, "r1", Fact(E_Moon, "Person")),
         Relationship(E_Mars, "r1", Fact(E_Venus, "missing")),
         Relationship(E_Pluto, "r2", Fact(E_Earth, "Location")),
         Relationship(E_Earth, "r1", Fact(E_Sun, "Location")) >> }

GraphRelLists ==
    UNION {[1..n -> GraphRelUniverse] : n \in 0..MaxGraphRels} \cup LongRelLists

\* list(unique_entities): every order of the set
RECURSIVE ListOrders(_)
ListOrders(S) ==
    IF S = {} THEN {<<>>}
    ELSE UNION {{<<x>> \o p : p \in ListOrders(S \ {x})} : x \in S}

\* lines 609-663: the pair loop, for i < j
RECURSIVE pair_loop(_, _, _, _)
pair_loop(m, list, i, j) ==
    IF i >= Len(list) THEN m
    ELSE IF j > Len(list) THEN pair_loop(m, list, i + 1, i + 2)
    ELSE pair_loop(IF is_similar(list[i], list[j])
                   THEN union_entities(m, list[i], list[j]) ELSE m,
                   list, i, j + 1)

\* _resolve_entities_with_splink, with the entities listed in the given order
resolve_entities(rels, order) ==
    IF unique_entities(rels) = {} THEN EmptyMap
    ELSE LET m == pair_loop([e \in unique_entities(rels) |-> e], order, 1, 2)
         IN  [e \in DOMAIN m |-> find_canonical(m, e)]

\* dict.get(key, default)
dict_get(m, key, default) == IF key \in DOMAIN m THEN m[key] ELSE default

\* G.add_node of an absent node
add_node(g, node, type) ==
    [g EXCEPT !.nodes = Append(@, node), !.type = (node :> type) @@ @]

\* a node step that always writes the mentioned type
node_step_overwrite(g, canonical, type) ==
    IF canonical \in Range(g.nodes)
    THEN [g EXCEPT !.type[canonical] = type]
    ELSE add_node(g, canonical, type)

\* lines 1080-1093: an existing node keeps its type unless it is "Unknown"
\* and the mention carries another one
node_step(g, canonical, type) ==
    IF canonical \in Range(g.nodes)
    THEN IF g.type[canonical] = "Unknown" /\ type # "Unknown"
         THEN [g EXCEPT !.type[canonical] = type]
         ELSE g
    ELSE add_node(g, canonical, type)

\* an edge insertion that keeps the attributes of an existing edge
add_edge_keep_first(g, source, target, label, weight) ==
    IF <<source, target>> \in DOMAIN g.edges THEN g
    ELSE [g EXCEPT !.edge_list = Append(@, <<source, target>>),
                   !.edges = (<<source, target>> :> [label |-> label, weight |-> weight]) @@ @]

\* G.add_edge on a DiGraph: a new edge is appended, the attributes of an
\* existing one are updated
add_edge(g, source, target, label, weight) ==
    IF <<source, target>> \in DOMAIN g.edges
    THEN [g EXCEPT !.edges[<<source, target>>] = [label |-> label, weight |-> weight]]
    ELSE [g EXCEPT !.edge_list = Append(@, <<source, target>>),
                   !.edges = (<<source, target>> :> [label |-> label, weight |-> weight]) @@ @]

source_canonical(rel) == dict_get(canonical_entity_map, rel.source, rel.source)

target_canonical(rel) == dict_get(canonical_entity_map, rel.target, rel.target)

\* lines 1072-1101: the body of the loop over parsed_relationships
add_relationship(g, rel) ==
    LET g1 == node_step(g, source_canonical(rel), rel.source_type)
        g2 == node_step(g1, target_canonical(rel), rel.target_type)
    IN  add_edge(g2, source_canonical(rel), target_canonical(rel),
                 rel.relationship, rel.strength)

\* G.degree(node) of a DiGraph: in-degree plus out-degree
degree(g, node) ==
    Cardinality({e \in DOMAIN g.edges : e[1] = node})
        + Cardinality({e \in DOMAIN g.edges : e[2] = node})

\* nx.degree_centrality in units of 1/(len(G) - 1); 1 for every node of a
\* graph with at most one node
nx_degree_centrality(g) ==
    [n \in Range(g.nodes) |-> IF Len(g.nodes) <= 1 THEN 1 ELSE degree(g, n)]

\* sorted(seq, key=..., reverse=True): stable, equal keys keep their order
RECURSIVE sorted_reverse(_, _, _)
sorted_reverse(seq, key, k) ==
    IF k = 0 THEN <<>>
    ELSE LET s   == sorted_reverse(seq, key, k - 1)
             x   == seq[k]
             pos == Cardinality({i \in 1..Len(s) : key[s[i]] >= key[x]})
         IN  SubSeq(s, 1, pos) \o <<x>> \o SubSeq(s, pos + 1, Len(s))

\* a line of the linearized text
Line(kind, text, node, type, label, peer, weight) ==
    [kind |-> kind, text |-> text, node |-> node, type |-> type,
     label |-> label, peer |-> peer, weight |-> weight]

Literal(text) == Line("literal", text, <<>>, "", "", <<>>, 0)

EmptyGraphText == "The knowledge graph is empty."

\* list(graph.out_edges(node)) and list(graph.in_edges(node))
out_edges(g, node) == SelectSeq(g.edge_list, LAMBDA e : e[1] = node)

in_edges(g, node) == SelectSeq(g.edge_list, LAMBDA e : e[2] = node)

\* lines 721-737: the lines written for one node
node_lines(g, node) ==
    LET outgoing == out_edges(g, node)
        incoming == in_edges(g, node)
    IN  <<Line("entity", "", node, g.type[node], "", <<>>, 0)>>
        \o (IF outgoing # <<>>
            THEN <<Literal("  - **Connects To:**")>>
                 \o [k \in 1..Len(outgoing) |->
                        Line("out", "", node, "", g.edges[outgoing[k]].label,
                             outgoing[k][2], g.edges[outgoing[k]].weight)]
            ELSE <<>>)
        \o (IF incoming # <<>>
            THEN <<Literal("  - **Is Connected From:**")>>
                 \o [k \in 1..Len(incoming) |->
                        Line("in", "", node, "", g.edges[incoming[k]].label,
                             incoming[k][1], g.edges[incoming[k]].weight)]
            ELSE <<>>)

RECURSIVE all_node_lines(_, _, _)
all_node_lines(g, sorted_nodes, k) ==
    IF k > Len(sorted_nodes) THEN <<>>
    ELSE node_lines(g, sorted_nodes[k]) \o all_node_lines(g, sorted_nodes, k + 1)

\* a linearization without the guard for the empty graph and without header
linearize_joined_only(g, centrality) ==
    all_node_lines(g, sorted_reverse(g.nodes, centrality, Len(g.nodes)), 1)

\* _linearize_graph_for_llm: the text as its sequence of lines
linearize_graph_for_llm(g, centrality) ==
    IF g.nodes = <<>> THEN <<Literal(EmptyGraphText)>>
    ELSE <<Literal("### Knowledge Graph Summary (Ordered by Importance)\n")>>
         \o all_node_lines(g, sorted_reverse(g.nodes, centrality, Len(g.nodes)), 1)

\* how a summarization call ends: content, a response without content, an
\* exception caught by the call's handler, an exception that leaves the task
SummaryOutcomes == {"content", "no_content", "caught", "escaped"}

PendingSummary == [kind |-> "pending", entity |-> <<>>]

\* _summarize_entity as asyncio.gather(return_exceptions=True) reports it
summarize_entity(node, outcome) ==
    IF outcome = "content" THEN [kind |-> "dict", entity |-> node]
    ELSE IF outcome = "escaped" THEN [kind |-> "Exception", entity |-> <<>>]
    ELSE [kind |-> "None", entity |-> <<>>]

\* line 1125: sorted_nodes[:5]
first_nodes(sorted_nodes) ==
    SubSeq(sorted_nodes, 1, IF Len(sorted_nodes) < TopN THEN Len(sorted_nodes) ELSE TopN)

\* a filter that gives up every summary as soon as one task failed
filter_summaries_all_or_nothing(results) ==
    IF \E k \in 1..Len(results) : results[k].kind # "dict" THEN <<>> ELSE results

\* lines 1135-1138: None results and exceptions are filtered out
filter_summaries(results) == SelectSeq(results, LAMBDA r : r.kind = "dict")

\* lines 1149-1158
key_entities(g, centrality, summary_list) ==
    [k \in 1..Len(summary_list) |->
        [entity |-> summary_list[k].entity,
         type |-> dict_get(g.type, summary_list[k].entity, "Unknown"),
         degree |-> dict_get(centrality, summary_list[k].entity, 0)]]

\* lines 1161-1170: the first five edges by weight
key_relationships(g) ==
    LET sorted_edges == sorted_reverse(g.edge_list,
                                       [e \in DOMAIN g.edges |-> g.edges[e].weight],
                                       Len(g.edge_list))
        top == SubSeq(sorted_edges, 1, IF Len(sorted_edges) < 5 THEN Len(sorted_edges) ELSE 5)
    IN  [k \in 1..Len(top) |->
            [source |-> top[k][1], target |-> top[k][2],
             label |-> g.edges[top[k]].label, weight |-> g.edges[top[k]].weight]]

GraphInit ==
    /\ g_relationships \in GraphRelLists
    /\ canonical_entity_map \in
           {resolve_entities(g_relationships, order) :
                order \in ListOrders(unique_entities(g_relationships))}
    /\ g_pos = 1
    /\ G = EmptyGraph
    /\ degree_centrality = EmptyMap
    /\ top_nodes = <<>>
    /\ graph_context_for_llm = <<>>
    /\ summary_results = <<>>
    /\ summaries = <<>>
    /\ g_result = "none"
    /\ g_pc = "build"
    /\ ResolverIdle
    /\ SearchIdle
    /\ AnalyzeExtracting
    /\ RHFIdle
    /\ ToolsIdle
    /\ SecureIdle
    /\ FilterIdle
    /\ CleanIdle

\* lines 1072-1101: one iteration of the loop over parsed_relationships
AddRelationship ==
    /\ g_pc = "build"
    /\ g_pos <= Len(g_relationships)
    /\ G' = add_relationship(G, g_relationships[g_pos])
    /\ g_pos' = g_pos + 1
    /\ UNCHANGED <<g_relationships, canonical_entity_map, degree_centrality,
                   top_nodes, graph_context_for_llm, summary_results, summaries,
                   g_result, g_pc>>
    /\ UNCHANGED outsideGraph

\* lines 1107-1130: centrality, the top nodes and the linearized context
AnalyzeGraph ==
    /\ g_pc = "build"
    /\ g_pos > Len(g_relationships)
    /\ LET centrality == nx_degree_centrality(G)
           top        == first_nodes(sorted_reverse(G.nodes, centrality, Len(G.nodes)))
       IN  /\ degree_centrality' = centrality
           /\ top_nodes' = top
           /\ graph_context_for_llm' = linearize_graph_for_llm(G, centrality)
           /\ summary_results' = [k \in 1..Len(top) |-> PendingSummary]
    /\ g_pc' = "summarize"
    /\ UNCHANGED <<g_relationships, canonical_entity_map, g_pos, G, summaries, g_result>>
    /\ UNCHANGED outsideGraph

\* lines 1133-1134: one of the gathered summarization tasks completes
SummarizeEntity(i) ==
    /\ g_pc = "summarize"
    /\ i \in 1..Len(top_nodes)
    /\ summary_results[i] = PendingSummary
    /\ \E outcome \in SummaryOutcomes :
           summary_results' = [summary_results EXCEPT ![i] = summarize_entity(top_nodes[i], outcome)]
    /\ UNCHANGED <<g_relationships, canonical_entity_map, g_pos, G, degree_centrality,
                   top_nodes, graph_context_for_llm, summaries, g_result, g_pc>>
    /\ UNCHANGED outsideGraph

\* lines 1135-1190: the gather returns, the results are filtered and the
\* report is assembled
ReportGraph ==
    /\ g_pc = "summarize"
    /\ \A i \in 1..Len(top_nodes) : summary_results[i] # PendingSummary
    /\ summaries' = filter_summaries(summary_results)
    /\ g_result' = [entities_extracted |-> Len(G.nodes),
                    relationships_found |-> Len(G.edge_list),
                    central_entities |-> key_entities(G, degree_centrality,
                                                      filter_summaries(summary_results)),
                    key_relationships |-> key_relationships(G)]
    /\ g_pc' = "done"
    /\ UNCHANGED <<g_relationships, canonical_entity_map, g_pos, G, degree_centrality,
                   top_nodes, graph_context_for_llm, summary_results>>
    /\ UNCHANGED outsideGraph

GraphNext ==
    \/ AddRelationship
    \/ AnalyzeGraph
    \/ \E i \in 1..TopN : SummarizeEntity(i)
    \/ ReportGraph

SpecGraph == GraphInit /\ [][GraphNext]_vars

(***************************************************************************)
(* Claims about graph construction and summarization, checked under        *)
(* SpecGraph.                                                              *)
(***************************************************************************)
\* the type the relationship's first specific mention of a node carries,
\* "Unknown" when it has none (the source is mentioned before the target)
FirstSpecificMention(rel, node) ==
    IF source_canonical(rel) = node /\ rel.source_type # "Unknown" THEN rel.source_type
    ELSE IF target_canonical(rel) = node /\ rel.target_type # "Unknown" THEN rel.target_type
    ELSE "Unknown"

\* C13: processing a relationship never turns a specific node type back to
\* "Unknown" (it leaves a specific type as it is), and a node typed
\* "Unknown" takes the type of the relationship's first specific mention.
C13_TypeMonotonic ==
    [][(g_pc = "build" /\ g_pos <= Len(g_relationships)) =>
          \A n \in Range(G.nodes) :
              /\ n \in Range(G'.nodes)
              /\ G.type[n] # "Unknown" =>
                     G'.type[n] # "Unknown" /\ G'.type[n] = G.type[n]
              /\ G.type[n] = "Unknown" =>
                     G'.type[n] = FirstSpecificMention(g_relationships[g_pos], n)]_vars

\* a node keeps its specific type after a later "Unknown"-typed mention
C13_Witness ==
    /\ g_pc = "build"
    /\ \E i, j \in 1..(g_pos - 1) :
           /\ i < j
           /\ target_canonical(g_relationships[i]) = target_canonical(g_relationships[j])
           /\ g_relationships[i].target_type # "Unknown"
           /\ g_relationships[j].target_type = "Unknown"
           /\ G.type[target_canonical(g_relationships[i])] = g_relationships[i].target_type

\* the ordered canonical pair relationship k maps to
EdgePair(k) ==
    <<source_canonical(g_relationships[k]), target_canonical(g_relationships[k])>>

GraphBuilt == g_pc \in {"build", "summarize", "done"} /\ g_pos > Len(g_relationships)

\* C14: the built graph has exactly one edge for every ordered canonical
\* pair some relationship maps to, and the edge's label and weight are
\* those of the last such relationship.
C14_LastWriteWins ==
    GraphBuilt =>
        /\ DOMAIN G.edges = {EdgePair(k) : k \in 1..Len(g_relationships)}
        /\ Range(G.edge_list) = DOMAIN G.edges
        /\ \A a, b \in 1..Len(G.edge_list) : G.edge_list[a] = G.edge_list[b] => a = b
        /\ \A k \in 1..Len(g_relationships) :
               (\A j \in (k + 1)..Len(g_relationships) : EdgePair(j) # EdgePair(k)) =>
                   G.edges[EdgePair(k)] = [label |-> g_relationships[k].relationship,
                                           weight |-> g_relationships[k].strength]

\* two relationships with different labels map to one pair
C14_Witness ==
    /\ GraphBuilt
    /\ \E i, j \in 1..Len(g_relationships) :
           /\ i < j
           /\ EdgePair(i) = EdgePair(j)
           /\ g_relationships[i].relationship # g_relationships[j].relationship
           /\ G.edges[EdgePair(i)].label = g_relationships[j].relationship

\* the positions of top_nodes whose summarization returned content
Succeeded == {i \in 1..Len(top_nodes) : summary_results[i].kind = "dict"}

\* C16: the summaries are for distinct nodes among the five nodes of
\* highest degree centrality, at most five of them, and they are exactly
\* the top nodes whose call returned content, in the order of the top nodes.
C16_TopFiveSiblingsKept ==
    g_pc = "done" =>
        /\ Len(top_nodes) = (IF Len(G.nodes) < 5 THEN Len(G.nodes) ELSE 5)
        /\ Range(top_nodes) \subseteq Range(G.nodes)
        /\ \A a, b \in 1..Len(top_nodes) : top_nodes[a] = top_nodes[b] => a = b
        /\ \A n \in Range(top_nodes) : \A m \in Range(G.nodes) \ Range(top_nodes) :
               degree(G, n) >= degree(G, m)
        /\ Len(summaries) <= 5
        /\ \A a, b \in 1..Len(summaries) : summaries[a].entity = summaries[b].entity => a = b
        /\ {summaries[k].entity : k \in 1..Len(summaries)} = {top_nodes[i] : i \in Succeeded}
        /\ Len(g_result.central_entities) = Len(summaries)
        /\ \A k \in 1..Len(summaries) :
               g_result.central_entities[k].entity = summaries[k].entity

\* more than five nodes, and among the top five both failed and successful
\* summarization calls of every failing kind
C16_Witness ==
    /\ g_pc = "done"
    /\ Len(G.nodes) > 5
    /\ \E i \in 1..Len(top_nodes) : summary_results[i].kind = "None"
    /\ \E i \in 1..Len(top_nodes) : summary_results[i].kind = "Exception"
    /\ Cardinality(Succeeded) = 3
    /\ Len(summaries) = 3

\* C17: the graph without nodes is linearized to the one-line text "The
\* knowledge graph is empty.", which is not the empty text, and from there
\* analyze_topic goes on to its report.
C17_EmptyGraphSentinel ==
    (g_pc \in {"summarize", "done"} /\ G.nodes = <<>>) =>
        /\ graph_context_for_llm = <<Literal("The knowledge graph is empty.")>>
        /\ graph_context_for_llm # <<>>
        /\ \A k \in 1..Len(graph_context_for_llm) : graph_context_for_llm[k].text # ""
        /\ g_pc = "summarize" => ENABLED ReportGraph
        /\ g_pc = "done" =>
               /\ g_result.entities_extracted = 0
               /\ g_result.relationships_found = 0
               /\ g_result.central_entities = <<>>

\* the report of a run without relationships
C17_Witness ==
    /\ g_pc = "done"
    /\ g_relationships = <<>>
    /\ G.nodes = <<>>
    /\ graph_context_for_llm = <<Literal(EmptyGraphText)>>
    /\ g_result.central_entities = <<>>

(***************************************************************************)
(* The search and scrape tools (google_search, news_search,                *)
(* scholar_search, scrape_url).  The gateway functions query_serper_api    *)
(* and scrape_serper_url either return a response or raise.                *)
(***************************************************************************)
MaxInvocations == 2

GitHubPrefix ==
    <<"h","t","t","p","s",":","/","/","g","i","t","h","u","b",".","c","o","m","/">>

RawPrefix ==
    <<"h","t","t","p","s",":","/","/","r","a","w",".","g","i","t","h","u","b","u","s","e","r","c","o","n","t","e","n","t",".","c","o","m","/">>

BlobSegment == <<"b","l","o","b","/">>

\* how the URLs given to scrape_url begin
UrlPrefixes ==
    { <<"h","t","t","p","s",":","/","/","g","i","t","h","u","b",".","c","o","m","/">>,
      <<"h","t","t","p",":","/","/","g","i","t","h","u","b",".","c","o","m","/">>,
      <<"h","t","t","p","s",":","/","/","g","i","t","h","u","b","X","c","o","m","/">>,
      <<" ","h","t","t","p","s",":","/","/","g","i","t","h","u","b",".","c","o","m","/">>,
      <<"h","t","t","p","s",":","/","/","e","x","a","m","p","l","e",".","c","o","m","/">> }

\* how they go on
UrlRests ==
    { <<"o","/","r","/","b","l","o","b","/","m","/","f",".","m","d">>,
      <<"o","/","r","/","b","l","o","b","/","m","/","d","/","f">>,
      <<"o","/","r","/","t","r","e","e","/","m","/","f">>,
      <<"o","/","r","/","b","l","o","b","/","m","/">>,
      <<"o","/","r","/","b","l","o","b","/","m">>,
      <<"o","/","/","b","l","o","b","/","m","/","f">>,
      <<"o","/","r","/","b","l","o","b","/","m","/","a","\n","b">>,
      <<"o","/","r","/","b","l","o","b","/","m","/","\n","b">>,
      <<"o","/","r">>,
      <<"o","/","r","/","b","l","o","b","/","/","f">> }

UrlUniverse == {p \o r : p \in UrlPrefixes, r \in UrlRests}

\* the position of the first "/" of s at or after from, 0 when there is none
NextSlash(s, from) ==
    IF \E k \in from..Len(s) : s[k] = "/"
    THEN CHOOSE k \in from..Len(s) : s[k] = "/" /\ \A j \in from..(k - 1) : s[j] # "/"
    ELSE 0

\* the end of the longest run without line feed that starts at from: what
\* the greedy (.+) takes, "." not matching a line feed
DotPlusEnd(s, from) ==
    IF \E k \in from..Len(s) : s[k] = "\n"
    THEN (CHOOSE k \in from..Len(s) : s[k] = "\n" /\ \A j \in from..(k - 1) : s[j] # "\n") - 1
    ELSE Len(s)

NoMatch == [matched |-> FALSE, owner |-> <<>>, repo |-> <<>>, branch |-> <<>>,
            file_path |-> <<>>]

\* re.match(github_pattern, url): anchored at the start of url only
github_match(url) ==
    IF ~StartsWith(url, GitHubPrefix) THEN NoMatch
    ELSE LET o0 == Len(GitHubPrefix) + 1
             s1 == NextSlash(url, o0)
         IN  IF s1 <= o0 THEN NoMatch
             ELSE LET s2 == NextSlash(url, s1 + 1)
                  IN  IF s2 <= s1 + 1 THEN NoMatch
                      ELSE IF ~StartsWith(SubSeq(url, s2 + 1, Len(url)), BlobSegment)
                      THEN NoMatch
                      ELSE LET b0 == s2 + 1 + Len(BlobSegment)
                               s3 == NextSlash(url, b0)
                           IN  IF s3 <= b0 THEN NoMatch
                               ELSE IF s3 + 1 > Len(url) \/ url[s3 + 1] = "\n"
                               THEN NoMatch
                               ELSE [matched |-> TRUE,
                                     owner |-> SubSeq(url, o0, s1 - 1),
                                     repo |-> SubSeq(url, s1 + 1, s2 - 1),
                                     branch |-> SubSeq(url, b0, s3 - 1),
                                     file_path |-> SubSeq(url, s3 + 1, DotPlusEnd(url, s3 + 1))]

\* _transform_github_url_to_raw
transform_github_url_to_raw(url) ==
    LET match == github_match(url)
    IN  IF match.matched
        THEN RawPrefix \o match.owner \o <<"/">> \o match.repo \o <<"/">>
                 \o match.branch \o <<"/">> \o match.file_path
        ELSE url

\* the "markdown" field of a scrape response: absent, not a string, or a
\* text given as its pieces
Markdown(kind, pieces) == [kind |-> kind, pieces |-> pieces]

MarkdownValues ==
    { Markdown("missing", <<>>), Markdown("null", <<>>),
      Markdown("str", <<"# T ", "&amp;", " ", "\\*">>) }

\* html.unescape and the removal of the backslash before a punctuation
\* character, on one piece
clean_piece(piece) ==
    IF piece = "&amp;" THEN "&"
    ELSE IF piece = "\\*" THEN "*"
    ELSE piece

\* response_data.get("markdown", "") followed by _clean_markdown
clean_markdown(markdown) ==
    IF markdown.kind = "str"
    THEN [k \in 1..Len(markdown.pieces) |-> clean_piece(markdown.pieces[k])]
    ELSE <<>>

\* what a gateway call does: a response, SerperApiClientError, or an
\* exception _make_serper_request does not catch (json.loads raises
\* RecursionError, not JSONDecodeError, on a deeply nested response body)
GatewayOutcome(kind, value) == [kind |-> kind, value |-> value]

SearchGatewayOutcomes ==
    { GatewayOutcome("response", "organic_1"), GatewayOutcome("response", "organic_2"),
      GatewayOutcome("SerperApiClientError", "none"),
      GatewayOutcome("RecursionError", "none") }

ScrapeGatewayOutcomes ==
    {GatewayOutcome("response", m) : m \in MarkdownValues}
        \cup { GatewayOutcome("SerperApiClientError", Markdown("missing", <<>>)),
               GatewayOutcome("RecursionError", Markdown("missing", <<>>)) }

SearchTools == {"google_search", "news_search", "scholar_search"}

\* the arguments of a search tool call; "None" for a parameter left out
SearchArgs(query, location, num_results, autocorrect, time_period_filter, page_number) ==
    [query |-> query, location |-> location, num_results |-> num_results,
     autocorrect |-> autocorrect, time_period_filter |-> time_period_filter,
     page_number |-> page_number]

\* scholar_search has no location and no autocorrect parameter
ArgsOf(tool) ==
    IF tool = "scholar_search"
    THEN { SearchArgs("q1", "None", "None", "None", "None", "None"),
           SearchArgs("q1,q2", "None", "20", "None", "as_ylo=2020", "2") }
    ELSE { SearchArgs("q1", "None", "None", "None", "None", "None"),
           SearchArgs("q1", "London", "20", "True", "qdr:d", "2"),
           SearchArgs("q1,q2", "None", "10", "False", "None", "None") }

\* the search_endpoint each tool passes
endpoint_of(tool) ==
    IF tool = "google_search" THEN "search"
    ELSE IF tool = "news_search" THEN "news"
    ELSE "scholar"

Request(endpoint, api_key, query, location, num_results, autocorrect, time_period_filter, page_number, url_to_scrape, include_markdown) ==
    [endpoint |-> endpoint, api_key |-> api_key, queries |-> query,
     location |-> location, num_results |-> num_results, autocorrect |-> autocorrect,
     time_period_filter |-> time_period_filter, page_number |-> page_number,
     url_to_scrape |-> url_to_scrape, include_markdown |-> include_markdown]

\* a search request that leaves the page number out
search_request_no_page(tool, args) ==
    Request(endpoint_of(tool), "None", args.query, args.location, args.num_results,
            args.autocorrect, args.time_period_filter, "None", <<>>, FALSE)

\* the query_serper_api call of a search tool
search_request(tool, args) ==
    Request(endpoint_of(tool), "None", args.query, args.location, args.num_results,
            args.autocorrect, args.time_period_filter, args.page_number, <<>>, FALSE)

\* lines 548-552: the scrape_serper_url call of scrape_url
scrape_request(url) ==
    Request("scrape", "None", "none", "None", "None", "None", "None", "None",
            transform_github_url_to_raw(url), TRUE)

ToolOutcome(kind, value, error) == [kind |-> kind, value |-> value, error |-> error]

\* try/except of a tool: SerperApiClientError is re-raised, any other
\* exception is raised as SerperApiClientError
tool_outcome_of(outcome, value) ==
    IF outcome.kind = "response" THEN ToolOutcome("returned", value, "none")
    ELSE ToolOutcome("raised", "none", "SerperApiClientError")

ToolsInit ==
    /\ tool_name = "none"
    /\ tool_args = <<>>
    /\ gateway_requests = <<>>
    /\ gateway_outcome = <<>>
    /\ tool_outcome = <<>>
    /\ invocations = 0
    /\ ResolverIdle
    /\ SearchIdle
    /\ AnalyzeIdle
    /\ RHFIdle
    /\ GraphIdle
    /\ SecureIdle
    /\ FilterIdle
    /\ CleanIdle

\* google_search, news_search, scholar_search: one call of the tool
SearchTool(tool) ==
    /\ invocations < MaxInvocations
    /\ \E args \in ArgsOf(tool), outcome \in SearchGatewayOutcomes :
           /\ tool_args' = args
           /\ gateway_requests' = <<search_request(tool, args)>>
           /\ gateway_outcome' = outcome
           /\ tool_outcome' = tool_outcome_of(outcome, outcome.value)
    /\ tool_name' = tool
    /\ invocations' = invocations + 1
    /\ UNCHANGED outsideTools

\* scrape_url: one call of the tool
ScrapeUrl ==
    /\ invocations < MaxInvocations
    /\ \E url \in UrlUniverse, outcome \in ScrapeGatewayOutcomes :
           /\ tool_args' = url
           /\ gateway_requests' = <<scrape_request(url)>>
           /\ gateway_outcome' = outcome
           /\ tool_outcome' = tool_outcome_of(outcome, clean_markdown(outcome.value))
    /\ tool_name' = "scrape_url"
    /\ invocations' = invocations + 1
    /\ UNCHANGED outsideTools

ToolsNext ==
    \/ \E tool \in SearchTools : SearchTool(tool)
    \/ ScrapeUrl

SpecTools == ToolsInit /\ [][ToolsNext]_vars

(***************************************************************************)
(* Claims about the search and scrape tools, checked under SpecTools.      *)
(***************************************************************************)
SlashFree(s) == \A k \in 1..Len(s) : s[k] # "/"

\* the ways of reading url as
\* https://github.com/{owner}/{repo}/blob/{branch}/{path}
BlobParses(url) ==
    IF ~StartsWith(url, GitHubPrefix) THEN {}
    ELSE LET body == SubSeq(url, Len(GitHubPrefix) + 1, Len(url))
             n    == Len(body)
         IN  { [owner |-> SubSeq(body, 1, i - 1), repo |-> SubSeq(body, i + 1, j - 1),
                branch |-> SubSeq(body, j + 6, k - 1), path |-> SubSeq(body, k + 1, n)] :
                   <<i, j, k>> \in
                       { t \in (1..n) \X (1..n) \X (1..n) :
                           /\ 1 < t[1] /\ t[1] + 1 < t[2] /\ t[2] + 6 < t[3] /\ t[3] < n
                           /\ body[t[1]] = "/" /\ body[t[2]] = "/" /\ body[t[3]] = "/"
                           /\ SubSeq(body, t[2] + 1, t[2] + 5) = BlobSegment
                           /\ SlashFree(SubSeq(body, 1, t[1] - 1))
                           /\ SlashFree(SubSeq(body, t[1] + 1, t[2] - 1))
                           /\ SlashFree(SubSeq(body, t[2] + 6, t[3] - 1)) } }

RawUrl(parse) ==
    RawPrefix \o parse.owner \o <<"/">> \o parse.repo \o <<"/">> \o parse.branch
        \o <<"/">> \o parse.path

\* C18: scrape_url sends the gateway one request; for a URL of the GitHub
\* blob shape it carries the raw.githubusercontent.com URL with the same
\* owner, repo, branch and path, for every other URL the URL as given.
C18_RewriteOrUnchanged ==
    (tool_name = "scrape_url") =>
        /\ Len(gateway_requests) = 1
        /\ IF BlobParses(tool_args) # {}
           THEN \A parse \in BlobParses(tool_args) :
                    gateway_requests[1].url_to_scrape = RawUrl(parse)
           ELSE gateway_requests[1].url_to_scrape = tool_args

\* the endpoint that belongs to a search tool
MatchingEndpoint(tool) ==
    CASE tool = "google_search" -> "search"
      [] tool = "news_search" -> "news"
      [] tool = "scholar_search" -> "scholar"

C21_GatewayErrorKindSurfaced ==
    (tool_name # "none" /\ gateway_outcome.kind # "response") =>
        /\ tool_outcome.kind = "raised"
        /\ tool_outcome.error = gateway_outcome.kind

(***************************************************************************)
(* The secure server (serper_mcp_server_secure.py): every tool first runs  *)
(* check_permissions_and_rate_limit, then calls the gateway.  Time is      *)
(* counted in ticks, WindowTicks of them making the limiter's window.      *)
(***************************************************************************)
MaxSecureCalls == 4

MaxTime == 2

MaxRequests == 2

WindowTicks == 1

ClientIds == {"anonymous", "unknown", "c1"}

SecureTools == {"google_search", "news_search", "scholar_search", "scrape_url"}

\* the scope each tool passes to check_permissions_and_rate_limit
required_scope_of(tool) ==
    IF tool = "google_search" THEN "search:read"
    ELSE IF tool = "news_search" THEN "news:read"
    ELSE IF tool = "scholar_search" THEN "scholar:read"
    ELSE "scrape:read"

AllScopes == {"search:read", "news:read", "scholar:read", "scrape:read"}

\* what get_access_token() returns: None, or a token with client and scopes
NoToken == [present |-> FALSE, client_id |-> "", scopes |-> {}]

Token(client_id, scopes) == [present |-> TRUE, client_id |-> client_id, scopes |-> scopes]

AccessTokens ==
    { NoToken, Token("c1", {"search:read"}), Token("c1", AllScopes),
      Token("", AllScopes) }

\* a cleaning that removes one old entry at most
clean_one_old_request(client_requests, window_start) ==
    IF client_requests # <<>> /\ client_requests[1] < window_start
    THEN Tail(client_requests)
    ELSE client_requests

\* lines 47-50: entries older than the window are removed from the left
RECURSIVE clean_old_requests(_, _)
clean_old_requests(client_requests, window_start) ==
    IF client_requests # <<>> /\ client_requests[1] < window_start
    THEN clean_old_requests(Tail(client_requests), window_start)
    ELSE client_requests

\* RateLimiter.is_allowed: the verdict and the limiter's requests after it
is_allowed(requests, client_id, now) ==
    LET client_requests == clean_old_requests(requests[client_id], now - WindowTicks)
    IN  IF Len(client_requests) >= MaxRequests
        THEN [allowed |-> FALSE,
              requests |-> [requests EXCEPT ![client_id] = client_requests]]
        ELSE [allowed |-> TRUE,
              requests |-> [requests EXCEPT ![client_id] = Append(client_requests, now)]]

CheckResult(error, client_id, requests) ==
    [error |-> error, client_id |-> client_id, requests |-> requests]

\* a check that asks the rate limiter before it looks at the token
check_rate_limit_first(token, required_scope, requests, now) ==
    LET client_id == IF ~auth_provider \/ ~token.present THEN "anonymous"
                     ELSE IF token.client_id = "" THEN "unknown" ELSE token.client_id
        verdict   == is_allowed(requests, client_id, now)
    IN  IF ~verdict.allowed THEN CheckResult("SecurityError", client_id, verdict.requests)
        ELSE IF auth_provider /\ (~token.present \/ required_scope \notin token.scopes)
        THEN CheckResult("SecurityError", client_id, verdict.requests)
        ELSE CheckResult("none", client_id, verdict.requests)

\* check_permissions_and_rate_limit: the error it raises ("none" when it
\* returns), the client id, and the limiter's requests after it
check_permissions_and_rate_limit(token, required_scope, requests, now) ==
    IF auth_provider /\ ~token.present
    THEN CheckResult("SecurityError", "anonymous", requests)
    ELSE IF auth_provider /\ required_scope \notin token.scopes
    THEN CheckResult("SecurityError",
                     IF token.client_id = "" THEN "unknown" ELSE token.client_id,
                     requests)
    ELSE LET client_id == IF ~auth_provider THEN "anonymous"
                          ELSE IF token.client_id = "" THEN "unknown"
                          ELSE token.client_id
             verdict   == is_allowed(requests, client_id, now)
         IN  CheckResult(IF verdict.allowed THEN "none" ELSE "SecurityError",
                         client_id, verdict.requests)

\* lines 332-352: no SecurityError was raised before rate_limiter.is_allowed
limiter_consulted(token, required_scope) ==
    ~auth_provider \/ (token.present /\ required_scope \in token.scopes)

\* one call of RateLimiter.is_allowed: its argument, its time, its verdict
LimiterCall(client_id, time, allowed) ==
    [client_id |-> client_id, time |-> time, allowed |-> allowed]

\* what query_serper_api or scrape_serper_url does when it is called
SecureGatewayOutcomes == {"response", "ValueError", "SerperApiClientError", "RuntimeError"}

SecureOutcome(kind, error) == [kind |-> kind, error |-> error]

\* the except clauses of a secure tool: SecurityError, ValueError and
\* SerperApiClientError are re-raised, anything else is raised as
\* SerperApiClientError
secure_outcome_of(outcome) ==
    IF outcome = "response" THEN SecureOutcome("returned", "none")
    ELSE IF outcome \in {"ValueError", "SerperApiClientError", "SecurityError"}
    THEN SecureOutcome("raised", outcome)
    ELSE SecureOutcome("raised", "SerperApiClientError")

SecureInit ==
    /\ auth_provider \in BOOLEAN
    /\ utcnow = 0
    /\ rate_limiter_requests = [c \in ClientIds |-> <<>>]
    /\ secure_tool = "none"
    /\ access_token = NoToken
    /\ secure_gateway_calls = 0
    /\ secure_outcome = SecureOutcome("none", "none")
    /\ secure_invocations = 0
    /\ limiter_calls = <<>>
    /\ ResolverIdle
    /\ SearchIdle
    /\ AnalyzeIdle
    /\ RHFIdle
    /\ GraphIdle
    /\ ToolsIdle
    /\ FilterIdle
    /\ CleanIdle

\* time passes between two tool calls
Tick ==
    /\ utcnow < MaxTime
    /\ utcnow' = utcnow + 1
    /\ UNCHANGED <<auth_provider, rate_limiter_requests, secure_tool, access_token,
                   secure_gateway_calls, secure_outcome, secure_invocations,
                   limiter_calls>>
    /\ UNCHANGED outsideSecure

\* one call of a secure tool
SecureToolCall(tool) ==
    /\ secure_invocations < MaxSecureCalls
    /\ \E token \in AccessTokens, outcome \in SecureGatewayOutcomes :
           LET check == check_permissions_and_rate_limit(token, required_scope_of(tool),
                                                         rate_limiter_requests, utcnow)
           IN  /\ access_token' = token
               /\ rate_limiter_requests' = check.requests
               /\ limiter_calls' =
                      IF limiter_consulted(token, required_scope_of(tool))
                      THEN Append(limiter_calls,
                                  LimiterCall(check.client_id, utcnow, check.error = "none"))
                      ELSE limiter_calls
               /\ IF check.error # "none"
                  THEN /\ secure_outcome' = secure_outcome_of(check.error)
                       /\ UNCHANGED secure_gateway_calls
                  ELSE /\ secure_outcome' = secure_outcome_of(outcome)
                       /\ secure_gateway_calls' = secure_gateway_calls + 1
    /\ secure_tool' = tool
    /\ secure_invocations' = secure_invocations + 1
    /\ UNCHANGED <<auth_provider, utcnow>>
    /\ UNCHANGED outsideSecure

SecureNext ==
    \/ Tick
    \/ \E tool \in SecureTools : SecureToolCall(tool)

SpecSecure == SecureInit /\ [][SecureNext]_vars

(***************************************************************************)
(* Claims about the secure server, checked under SpecSecure.               *)
(***************************************************************************)
\* the request's token is absent or lacks the scope of the tool called
Unauthorized(token, tool) ==
    \/ ~token.present
    \/ (CASE tool = "google_search" -> "search:read"
          [] tool = "news_search" -> "news:read"
          [] tool = "scholar_search" -> "scholar:read"
          [] tool = "scrape_url" -> "scrape:read") \notin token.scopes

\* C20: with authentication enabled, a tool call whose token is absent or
\* lacks the tool's scope ends in an error, makes no gateway call and
\* leaves the rate limiter's record of requests as it was.
C20_RejectedBeforeProvider ==
    [][(/\ auth_provider
        /\ secure_invocations' = secure_invocations + 1
        /\ Unauthorized(access_token', secure_tool')) =>
           /\ secure_outcome'.kind = "raised"
           /\ secure_outcome'.error = "SecurityError"
           /\ secure_gateway_calls' = secure_gateway_calls
           /\ rate_limiter_requests' = rate_limiter_requests]_vars

\* a rejected call of a client that has used part of its quota
C20_Witness ==
    /\ auth_provider
    /\ secure_invocations >= 2
    /\ access_token.present
    /\ Unauthorized(access_token, secure_tool)
    /\ secure_outcome.error = "SecurityError"
    /\ secure_gateway_calls >= 1
    /\ Len(rate_limiter_requests[access_token.client_id]) = 1

\* the calls among the first n of the history that client_id was allowed
\* at or after time since
AllowedSince(client_id, since, n) ==
    {i \in 1..n : /\ limiter_calls[i].client_id = client_id
                  /\ limiter_calls[i].allowed
                  /\ limiter_calls[i].time >= since}

\* the recorded requests of a client that lie in the window ending now
InWindow(client_id) ==
    SelectSeq(rate_limiter_requests[client_id], LAMBDA t : t >= utcnow - WindowTicks)

\* never more than max_requests recorded in the window, and every verdict
\* is what the client's own earlier allowed calls make it
QuotaRespected ==
    /\ \A c \in ClientIds : Len(InWindow(c)) <= MaxRequests
    /\ \A n \in 1..Len(limiter_calls) :
           limiter_calls[n].allowed <=>
               Cardinality(AllowedSince(limiter_calls[n].client_id,
                                        limiter_calls[n].time - WindowTicks,
                                        n - 1)) < MaxRequests

\* what a call of is_allowed records: its own time once when allowed,
\* nothing when denied, and nothing for any other client
RecordsOnlyAllowed ==
    Len(limiter_calls') = Len(limiter_calls) + 1 =>
        LET call == limiter_calls'[Len(limiter_calls')]
        IN  /\ \A c \in ClientIds \ {call.client_id} :
                   rate_limiter_requests'[c] = rate_limiter_requests[c]
            /\ rate_limiter_requests'[call.client_id] =
                   IF call.allowed
                   THEN Append(InWindow(call.client_id), call.time)
                   ELSE InWindow(call.client_id)

\* C30: with non-decreasing timestamps, a client never has more than
\* max_requests requests recorded within the current window; a call is
\* allowed exactly when fewer than max_requests of the client's earlier
\* allowed calls lie within the last window; a denied call records nothing;
\* and the calls of one client do not change the verdict for another.
C30_PerClientQuota == []QuotaRespected /\ [][RecordsOnlyAllowed]_vars

\* a client used up its quota, time passed but not a whole window, its
\* next call was denied and recorded nothing, and once its requests had
\* left the window it was allowed again
C30_Witness ==
    /\ Len(limiter_calls) = 4
    /\ \A n \in 2..4 : limiter_calls[n].client_id = limiter_calls[1].client_id
    /\ limiter_calls[1].allowed
    /\ limiter_calls[2].allowed
    /\ ~limiter_calls[3].allowed
    /\ limiter_calls[3].time > limiter_calls[2].time
    /\ limiter_calls[4].allowed
    /\ rate_limiter_requests[limiter_calls[4].client_id] = <<limiter_calls[4].time>>

====
